---------------------------- MODULE Spec2Model ----------------------------
(***************************************************************************)
(* Swiss tournament engine of TournamentOrganizer: the pairing engine      *)
(* (swiss.js), the bye selector (bye.js), the tiebreak calculator          *)
(* (standings.js) and the tournament state machine (state/tournament.js)   *)
(* over the store (store.js), and the countdown timer hook (useTimer).     *)
(*                                                                         *)
(* Player IDs are the integers 1..NumPlayers (opaque, totally ordered, as  *)
(* the strings of the program are).  Match and tournament IDs stand for    *)
(* crypto.randomUUID(): a fresh ID is the least integer no match of the    *)
(* state holds.  Percentages are exact rationals <<num, den>>.             *)
(***************************************************************************)
EXTENDS Integers, Sequences, FiniteSets, TLC

VARIABLES tournament, pastTournaments, now, lastOp, ret, steps,
          subscribers, notified, storage, writes, timer

vars == <<tournament, pastTournaments, now, lastOp, ret, steps,
          subscribers, notified, storage, writes, timer>>

---------------------------------------------------------------------------
(* Bounds of the model *)

NumPlayers == 4
MaxSteps == 6
MaxRounds == 3
MaxDrops == 1
MaxPast == 2
FnPlayers == 3
FnRounds == 2
PairPlayers == 4
PairRounds == 3
ByePlayers == 3
ByeRounds == 3
MaxTime == 1
MaxSubscribers == 2
MaxWrites == 2
TiePlayers == 4
TieRounds == 4
MaxClock == 15

Players == 1..NumPlayers

---------------------------------------------------------------------------
(* Program constants *)

POINTS_WIN == 3
POINTS_DRAW == 1
FloorNum == 33
FloorDen == 100
EpsDen == 1000000000
ByeWins == 2
\* the timer's durations, in units of five minutes: the default 1:05:00, the
\* remaining times of the two milestone sounds and of the warning
DEFAULT_DURATION == 13
MILESTONE_40 == 8
MILESTONE_20 == 4
WARNING_BELOW == 2

\* null of player2Id / byePlayerId
NoPlayer == 0
\* null of match.result
NoResult == [none |-> TRUE]
\* null of state.tournament
NoTournament == [none |-> TRUE]
\* the value of a call that returns nothing
Undefined == "undefined"
\* the outcome of a call that throws: reading a property of null or undefined
TypeError == "TypeError"
\* null of result.correctedAt
NoTime == -1
\* null of AsyncStorage.getItem: nothing is stored under the key
NoItem == [none |-> TRUE]

MIN_MATCH_WIN_PCT == <<FloorNum, FloorDen>>
MIN_GAME_WIN_PCT == <<FloorNum, FloorDen>>

---------------------------------------------------------------------------
(* Sequences and rationals *)

Range(s) == {s[i] : i \in 1..Len(s)}

RECURSIVE Flatten(_)
Flatten(ss) == IF ss = <<>> THEN <<>> ELSE Head(ss) \o Flatten(Tail(ss))

RemoveAt(s, i) == [k \in 1..(Len(s) - 1) |-> IF k < i THEN s[k] ELSE s[k + 1]]

Perms(S) == {f \in [1..Cardinality(S) -> S] : Range(f) = S}

SeqsUpTo(S, n) == UNION {[1..k -> S] : k \in 0..n}

Abs(x) == IF x < 0 THEN -x ELSE x

RECURSIVE GCD(_, _)
GCD(a, b) == IF b = 0 THEN a ELSE GCD(b, a % b)

\* a rational in lowest terms, denominator positive
Rat(n, d) == LET g == GCD(Abs(n), d) IN <<n \div g, d \div g>>

RatAdd(a, b) == Rat(a[1] * b[2] + b[1] * a[2], a[2] * b[2])

RatLess(a, b) == a[1] * b[2] < b[1] * a[2]

RatMax(a, b) == IF RatLess(a, b) THEN b ELSE a

RECURSIVE RatSum(_)
RatSum(s) == IF s = <<>> THEN <<0, 1>> ELSE RatAdd(Head(s), RatSum(Tail(s)))

\* Math.abs(b - a) > 1e-9
GtEps(a, b) == Abs(a[1] * b[2] - b[1] * a[2]) > (a[2] * b[2]) \div EpsDen

---------------------------------------------------------------------------
(* swiss.js *)

\* [idA, idB].sort().join('|')
MatchupKey(idA, idB) == IF idA <= idB THEN <<idA, idB>> ELSE <<idB, idA>>

buildPriorMatchups(completedRounds) ==
    {MatchupKey(m.player1Id, m.player2Id) :
        m \in {x \in Range(Flatten([i \in 1..Len(completedRounds) |-> completedRounds[i].matches])) :
                  ~x.isBye /\ x.player2Id # NoPlayer}}

hasPlayed(idA, idB, priorMatchups) == MatchupKey(idA, idB) \in priorMatchups

Pair(a, b) == [player1Id |-> a, player2Id |-> b]

\* the null result of _backtrackPair
NoPairing == [ok |-> FALSE, pairs |-> <<>>]

RECURSIVE BacktrackFrom(_, _, _, _)
RECURSIVE BacktrackPair(_, _)
\* the loop without backtracking: a failed downstream pairing ends the search
BacktrackFromWithoutRetry(first, rest, i, priorMatchups) ==
    IF i > Len(rest) THEN NoPairing
    ELSE IF ~hasPlayed(first, rest[i], priorMatchups)
         THEN LET result == BacktrackPair(RemoveAt(rest, i), priorMatchups)
              IN IF result.ok
                 THEN [ok |-> TRUE, pairs |-> <<Pair(first, rest[i])>> \o result.pairs]
                 ELSE NoPairing
         ELSE BacktrackFrom(first, rest, i + 1, priorMatchups)

\* the loop trying the opponents from the last of rest to the first
BacktrackFromLastFirst(first, rest, i, priorMatchups) ==
    IF i > Len(rest) THEN NoPairing
    ELSE IF ~hasPlayed(first, rest[Len(rest) - i + 1], priorMatchups)
         THEN LET result == BacktrackPair(RemoveAt(rest, Len(rest) - i + 1), priorMatchups)
              IN IF result.ok
                 THEN [ok |-> TRUE,
                       pairs |-> <<Pair(first, rest[Len(rest) - i + 1])>> \o result.pairs]
                 ELSE BacktrackFrom(first, rest, i + 1, priorMatchups)
         ELSE BacktrackFrom(first, rest, i + 1, priorMatchups)

\* the loop of _backtrackPair, from index i of rest
BacktrackFrom(first, rest, i, priorMatchups) ==
    IF i > Len(rest) THEN NoPairing
    ELSE IF ~hasPlayed(first, rest[i], priorMatchups)
         THEN LET result == BacktrackPair(RemoveAt(rest, i), priorMatchups)
              IN IF result.ok
                 THEN [ok |-> TRUE, pairs |-> <<Pair(first, rest[i])>> \o result.pairs]
                 ELSE BacktrackFrom(first, rest, i + 1, priorMatchups)
         ELSE BacktrackFrom(first, rest, i + 1, priorMatchups)

BacktrackPair(players, priorMatchups) ==
    IF Len(players) = 0 THEN [ok |-> TRUE, pairs |-> <<>>]
    ELSE BacktrackFrom(Head(players), Tail(players), 1, priorMatchups)

\* the fold replaced by pairing neighbours
FoldPairAdjacent(players) ==
    [k \in 1..(Len(players) \div 2) |-> Pair(players[2 * k - 1], players[2 * k])]

FoldPair(players) ==
    LET half == Len(players) \div 2
    IN [i \in 1..half |-> Pair(players[i], players[i + half])]

\* the fallback replaced by the fold
GreedyPairFolded(players) ==
    [i \in 1..(Len(players) \div 2) |-> Pair(players[i], players[i + Len(players) \div 2])]

\* the fallback stepping by one: each neighbour pair, the inner players twice
GreedyPairOverlapping(players) ==
    [k \in 1..(Len(players) - 1) |-> Pair(players[k], players[k + 1])]

GreedyPair(players) ==
    [k \in 1..(Len(players) \div 2) |-> Pair(players[2 * k - 1], players[2 * k])]

pairRound(playerIds, completedRounds, byePlayerId) ==
    LET priorMatchups == buildPriorMatchups(completedRounds)
        playersToSchedule ==
            IF byePlayerId # NoPlayer
            THEN SelectSeq(playerIds, LAMBDA id : id # byePlayerId)
            ELSE playerIds
    IN IF Len(completedRounds) = 0 THEN FoldPair(playersToSchedule)
       ELSE LET pairs == BacktrackPair(playersToSchedule, priorMatchups)
            IN IF ~pairs.ok THEN GreedyPair(playersToSchedule) ELSE pairs.pairs

\* some complete pairing of the players S uses no pair of prior
RECURSIVE ExistsCleanPairing(_, _)
ExistsCleanPairing(S, prior) ==
    \/ S = {}
    \/ \E a \in S : \E b \in S \ {a} :
           /\ {a, b} \notin prior
           /\ ExistsCleanPairing(S \ {a, b}, prior)

\* the matchup keys as unordered pairs
PairsOfKeys(keys) == {{k[1], k[2]} : k \in keys}

---------------------------------------------------------------------------
(* bye.js *)

PriorByeRecipients(completedRounds) ==
    {m.player1Id :
        m \in {x \in Range(Flatten([i \in 1..Len(completedRounds) |-> completedRounds[i].matches])) :
                  x.isBye}}

RECURSIVE ByeScan(_, _, _)
\* the loop running from the best-ranked player to the worst
ByeScanFromBest(playerIds, prior, i) ==
    IF i < 1 THEN playerIds[Len(playerIds)]
    ELSE IF playerIds[Len(playerIds) - i + 1] \notin prior
         THEN playerIds[Len(playerIds) - i + 1]
         ELSE ByeScan(playerIds, prior, i - 1)

\* the downward loop of selectByePlayer, from index i
ByeScan(playerIds, prior, i) ==
    IF i < 1 THEN playerIds[Len(playerIds)]
    ELSE IF playerIds[i] \notin prior THEN playerIds[i]
         ELSE ByeScan(playerIds, prior, i - 1)

selectByePlayer(playerIds, completedRounds) ==
    ByeScan(playerIds, PriorByeRecipients(completedRounds), Len(playerIds))

---------------------------------------------------------------------------
(* standings.js *)

\* first occurrences of s, in order: the keys of the stats object
RECURSIVE Dedup(_)
Dedup(s) ==
    IF s = <<>> THEN <<>>
    ELSE LET d == Dedup(SelectSeq(Tail(s), LAMBDA x : x # Head(s)))
         IN <<Head(s)>> \o d

ZeroStats(id) ==
    [playerId |-> id, matchesPlayed |-> 0, matchWins |-> 0, matchLosses |-> 0,
     matchDraws |-> 0, matchPoints |-> 0, gamesWon |-> 0, gamesLost |-> 0,
     gamesPlayed |-> 0, opponents |-> <<>>, hasBye |-> FALSE]

\* the bye branch entering the missing opponent in the opponent list
AccumulateByeAsOpponent(stats, match) ==
    IF match.player1Id \notin DOMAIN stats THEN stats
    ELSE LET s == stats[match.player1Id]
         IN [stats EXCEPT ![match.player1Id] =
                [s EXCEPT !.matchesPlayed = @ + 1,
                          !.matchWins = @ + 1,
                          !.matchPoints = @ + POINTS_WIN,
                          !.gamesWon = @ + ByeWins,
                          !.gamesPlayed = @ + ByeWins,
                          !.opponents = Append(@, match.player2Id),
                          !.hasBye = TRUE]]

\* the bye branch of the accumulation loop
AccumulateBye(stats, match) ==
    IF match.player1Id \notin DOMAIN stats THEN stats
    ELSE LET s == stats[match.player1Id]
         IN [stats EXCEPT ![match.player1Id] =
                [s EXCEPT !.matchesPlayed = @ + 1,
                          !.matchWins = @ + 1,
                          !.matchPoints = @ + POINTS_WIN,
                          !.gamesWon = @ + ByeWins,
                          !.gamesPlayed = @ + ByeWins,
                          !.hasBye = TRUE]]

\* the branch of the accumulation loop for a match with two players
AccumulateResult(stats, match) ==
    IF match.result = NoResult THEN stats
    ELSE IF match.player1Id \notin DOMAIN stats \/ match.player2Id \notin DOMAIN stats
    THEN stats
    ELSE LET player1Wins == match.result.player1Wins
             player2Wins == match.result.player2Wins
             totalGames == player1Wins + player2Wins + match.result.draws
             a == match.player1Id
             b == match.player2Id
             games == [stats EXCEPT
                 ![a] = [@ EXCEPT !.matchesPlayed = @ + 1,
                                  !.gamesWon = @ + player1Wins,
                                  !.gamesLost = @ + player2Wins,
                                  !.gamesPlayed = @ + totalGames,
                                  !.opponents = Append(@, b)],
                 ![b] = [@ EXCEPT !.matchesPlayed = @ + 1,
                                  !.gamesWon = @ + player2Wins,
                                  !.gamesLost = @ + player1Wins,
                                  !.gamesPlayed = @ + totalGames,
                                  !.opponents = Append(@, a)]]
         IN IF player1Wins > player2Wins
            THEN [games EXCEPT
                     ![a] = [@ EXCEPT !.matchWins = @ + 1, !.matchPoints = @ + POINTS_WIN],
                     ![b] = [@ EXCEPT !.matchLosses = @ + 1]]
            ELSE IF player2Wins > player1Wins
            THEN [games EXCEPT
                     ![b] = [@ EXCEPT !.matchWins = @ + 1, !.matchPoints = @ + POINTS_WIN],
                     ![a] = [@ EXCEPT !.matchLosses = @ + 1]]
            ELSE [games EXCEPT
                     ![a] = [@ EXCEPT !.matchDraws = @ + 1, !.matchPoints = @ + POINTS_DRAW],
                     ![b] = [@ EXCEPT !.matchDraws = @ + 1, !.matchPoints = @ + POINTS_DRAW]]

AccumulateMatch(stats, match) ==
    IF match.isBye THEN AccumulateBye(stats, match) ELSE AccumulateResult(stats, match)

RECURSIVE Accumulate(_, _)
Accumulate(stats, matches) ==
    IF matches = <<>> THEN stats
    ELSE Accumulate(AccumulateMatch(stats, Head(matches)), Tail(matches))

\* the match-win percentage without its floor
matchWinPctUnclamped(s) ==
    IF s.matchesPlayed = 0 THEN MIN_MATCH_WIN_PCT
    ELSE Rat(s.matchPoints, 3 * s.matchesPlayed)

matchWinPct(s) ==
    IF s.matchesPlayed = 0 THEN MIN_MATCH_WIN_PCT
    ELSE RatMax(Rat(s.matchPoints, 3 * s.matchesPlayed), MIN_MATCH_WIN_PCT)

gameWinPct(s) ==
    IF s.gamesPlayed = 0 THEN MIN_GAME_WIN_PCT
    ELSE RatMax(Rat(s.gamesWon, s.gamesPlayed), MIN_GAME_WIN_PCT)

\* the mean of a non-empty list of rationals
Mean(pcts) == LET sum == RatSum(pcts) IN Rat(sum[1], sum[2] * Len(pcts))

omwPct(s, byId) ==
    LET ids == SelectSeq(s.opponents, LAMBDA id : id \in DOMAIN byId)
        pcts == [i \in 1..Len(ids) |-> byId[ids[i]].mwPct]
    IN IF Len(pcts) = 0 THEN MIN_MATCH_WIN_PCT ELSE Mean(pcts)

ogwPct(s, byId) ==
    LET ids == SelectSeq(s.opponents, LAMBDA id : id \in DOMAIN byId)
        pcts == [i \in 1..Len(ids) |-> byId[ids[i]].gwPct]
    IN IF Len(pcts) = 0 THEN MIN_GAME_WIN_PCT ELSE Mean(pcts)

\* the comparator without its omwPct step
StandingCompareSkippingOmw(a, b) ==
    IF b.matchPoints # a.matchPoints THEN b.matchPoints - a.matchPoints
    ELSE IF GtEps(b.gwPct, a.gwPct) THEN (IF RatLess(a.gwPct, b.gwPct) THEN 1 ELSE -1)
    ELSE IF RatLess(a.ogwPct, b.ogwPct) THEN 1
    ELSE IF RatLess(b.ogwPct, a.ogwPct) THEN -1 ELSE 0

\* the comparator of result.sort: negative when a sorts before b
StandingCompare(a, b) ==
    IF b.matchPoints # a.matchPoints THEN b.matchPoints - a.matchPoints
    ELSE IF GtEps(b.omwPct, a.omwPct) THEN (IF RatLess(a.omwPct, b.omwPct) THEN 1 ELSE -1)
    ELSE IF GtEps(b.gwPct, a.gwPct) THEN (IF RatLess(a.gwPct, b.gwPct) THEN 1 ELSE -1)
    ELSE IF RatLess(a.ogwPct, b.ogwPct) THEN 1
    ELSE IF RatLess(b.ogwPct, a.ogwPct) THEN -1 ELSE 0

\* x placed into the sorted list s after every element that does not sort after it
RECURSIVE InsertSorted(_, _)
InsertSorted(s, x) ==
    IF s = <<>> THEN <<x>>
    ELSE IF StandingCompare(Head(s), x) > 0 THEN <<x>> \o s
         ELSE <<Head(s)>> \o InsertSorted(Tail(s), x)

\* Array.prototype.sort with the comparator: a stable sort
RECURSIVE SortStandings(_)
SortStandings(s) ==
    IF s = <<>> THEN <<>>
    ELSE InsertSorted(SortStandings(SubSeq(s, 1, Len(s) - 1)), s[Len(s)])

\* the first pass over one player's stats: { ...s, mwPct, gwPct }
WithOwnPcts(s) ==
    [playerId |-> s.playerId, matchesPlayed |-> s.matchesPlayed,
     matchWins |-> s.matchWins, matchLosses |-> s.matchLosses,
     matchDraws |-> s.matchDraws, matchPoints |-> s.matchPoints,
     gamesWon |-> s.gamesWon, gamesLost |-> s.gamesLost,
     gamesPlayed |-> s.gamesPlayed, opponents |-> s.opponents,
     hasBye |-> s.hasBye, mwPct |-> matchWinPct(s), gwPct |-> gameWinPct(s)]

\* the second pass over one player's entry: omwPct and ogwPct from the lookup
WithOpponentPcts(s, byId) ==
    [playerId |-> s.playerId, matchesPlayed |-> s.matchesPlayed,
     matchWins |-> s.matchWins, matchLosses |-> s.matchLosses,
     matchDraws |-> s.matchDraws, matchPoints |-> s.matchPoints,
     gamesWon |-> s.gamesWon, gamesLost |-> s.gamesLost,
     gamesPlayed |-> s.gamesPlayed, opponents |-> s.opponents,
     hasBye |-> s.hasBye, mwPct |-> s.mwPct, gwPct |-> s.gwPct,
     omwPct |-> omwPct(s, byId), ogwPct |-> ogwPct(s, byId)]

\* the accumulated stats of the players ids over the completed rounds
StatsOf(ids, completedRounds) ==
    Accumulate([id \in Range(ids) |-> ZeroStats(id)],
               Flatten([i \in 1..Len(completedRounds) |-> completedRounds[i].matches]))

\* both passes, in the order of Object.values(stats)
Percentages(ids, stats) ==
    LET byId == [id \in Range(ids) |-> WithOwnPcts(stats[id])]
    IN [i \in 1..Len(ids) |-> WithOpponentPcts(byId[ids[i]], byId)]

\* the standings over every round of the list, the active ones included
computeStandingsOfAllRounds(activePlayers, rounds) ==
    SortStandings(
        Percentages(Dedup(activePlayers), StatsOf(Dedup(activePlayers), rounds)))

computeStandings(activePlayers, rounds) ==
    SortStandings(
        Percentages(Dedup(activePlayers),
                    StatsOf(Dedup(activePlayers),
                            SelectSeq(rounds, LAMBDA r : r.status = "complete"))))

---------------------------------------------------------------------------
(* useTimer: the countdown timer hook *)

\* the hook after its first render: state, refs and the players.  sounds is
\* what the last call played, played40 and played20 count the milestone
\* sounds since the last start() or stop(), observedExpiry tells that a tick
\* saw the time run out since the last start()
IdleTimer ==
    [duration |-> DEFAULT_DURATION, timeLeft |-> DEFAULT_DURATION,
     isRunning |-> FALSE, isExpired |-> FALSE, isWarning |-> FALSE,
     showAlarm |-> FALSE, endTime |-> NoTime, interval |-> FALSE,
     beeped40 |-> FALSE, beeped20 |-> FALSE, durationRef |-> DEFAULT_DURATION,
     alarm |-> FALSE, sounds |-> <<>>, played40 |-> 0, played20 |-> 0,
     observedExpiry |-> FALSE]

\* the durations setDuration is called with
Durations == {1, MILESTONE_20, DEFAULT_DURATION}

\* one call of the timer operation op
TimerCall(op) ==
    /\ lastOp' = op
    /\ ret' = Undefined
    /\ UNCHANGED <<tournament, pastTournaments, steps,
                   subscribers, notified, storage, writes>>

\* _tick() that never records a milestone sound as played
tickAtReplaying(t, time) ==
    LET remaining == t.endTime - time
        play40 == ~t.beeped40 /\ remaining <= MILESTONE_40
        play20 == ~t.beeped20 /\ remaining <= MILESTONE_20
    IN IF remaining <= 0
       THEN [t EXCEPT !.interval = FALSE, !.timeLeft = 0, !.isRunning = FALSE,
                      !.isExpired = TRUE, !.alarm = TRUE, !.showAlarm = TRUE,
                      !.sounds = <<"alarm">>, !.observedExpiry = TRUE]
       ELSE [t EXCEPT !.timeLeft = remaining,
                      !.isWarning = remaining < WARNING_BELOW,
                      !.sounds = (IF play40 THEN <<"40">> ELSE <<>>)
                                 \o (IF play20 THEN <<"20">> ELSE <<>>),
                      !.played40 = IF play40 THEN @ + 1 ELSE @,
                      !.played20 = IF play20 THEN @ + 1 ELSE @]

\* the timer after _tick() read the clock at time
tickAt(t, time) ==
    LET remaining == t.endTime - time
        play40 == ~t.beeped40 /\ remaining <= MILESTONE_40
        play20 == ~t.beeped20 /\ remaining <= MILESTONE_20
    IN IF remaining <= 0
       THEN [t EXCEPT !.interval = FALSE, !.timeLeft = 0, !.isRunning = FALSE,
                      !.isExpired = TRUE, !.alarm = TRUE, !.showAlarm = TRUE,
                      !.sounds = <<"alarm">>, !.observedExpiry = TRUE]
       ELSE [t EXCEPT !.timeLeft = remaining,
                      !.isWarning = remaining < WARNING_BELOW,
                      !.beeped40 = @ \/ play40,
                      !.beeped20 = @ \/ play20,
                      !.sounds = (IF play40 THEN <<"40">> ELSE <<>>)
                                 \o (IF play20 THEN <<"20">> ELSE <<>>),
                      !.played40 = IF play40 THEN @ + 1 ELSE @,
                      !.played20 = IF play20 THEN @ + 1 ELSE @]

\* the interval fires: it does so only while intervalRef holds it
tick ==
    /\ timer.interval
    /\ \E time \in now..MaxClock :
           /\ now' = time
           /\ timer' = tickAt(timer, time)
    /\ TimerCall("tick")

start ==
    /\ \E time \in now..MaxClock :
           /\ now' = time
           /\ timer' = [timer EXCEPT !.endTime = time + timer.durationRef,
                                     !.beeped40 = FALSE, !.beeped20 = FALSE,
                                     !.timeLeft = timer.durationRef,
                                     !.isRunning = TRUE, !.isExpired = FALSE,
                                     !.showAlarm = FALSE, !.interval = TRUE,
                                     !.sounds = <<>>, !.played40 = 0, !.played20 = 0,
                                     !.observedExpiry = FALSE]
    /\ TimerCall("start")

stop ==
    /\ timer' = [timer EXCEPT !.interval = FALSE, !.alarm = FALSE, !.showAlarm = FALSE,
                              !.endTime = NoTime, !.isRunning = FALSE,
                              !.isExpired = FALSE, !.timeLeft = timer.durationRef,
                              !.beeped40 = FALSE, !.beeped20 = FALSE,
                              !.sounds = <<>>, !.played40 = 0, !.played20 = 0]
    /\ TimerCall("stop")
    /\ UNCHANGED now

\* dismissAlarm is _stopAlarm
dismissAlarm ==
    /\ timer' = [timer EXCEPT !.alarm = FALSE, !.showAlarm = FALSE, !.sounds = <<>>]
    /\ TimerCall("dismissAlarm")
    /\ UNCHANGED now

setDuration(ms) ==
    /\ timer' = [timer EXCEPT !.durationRef = ms, !.duration = ms,
                              !.timeLeft = IF ~timer.isRunning THEN ms ELSE @,
                              !.sounds = <<>>]
    /\ TimerCall("setDuration")
    /\ UNCHANGED now

---------------------------------------------------------------------------
(* state/tournament.js: queries and helpers *)

\* { ...null, status }: a tournament object holding a status and nothing else
StatusOnly(status) == [status |-> status]

\* t.rounds is an array; reading a property of it throws otherwise
hasRounds(t) == "rounds" \in DOMAIN t

CompletedRounds(t) == SelectSeq(t.rounds, LAMBDA r : r.status = "complete")

AllMatches(t) == Flatten([i \in 1..Len(t.rounds) |-> t.rounds[i].matches])

UsedMatchIds(t, past) ==
    {m.id : m \in (IF hasRounds(t) THEN Range(AllMatches(t)) ELSE {})}
    \cup UNION {{m.id : m \in Range(AllMatches(past[i]))} :
                   i \in {k \in 1..Len(past) : hasRounds(past[k])}}

UsedTournamentIds(t, past) ==
    (IF hasRounds(t) THEN {t.id} ELSE {})
    \cup {past[i].id : i \in {k \in 1..Len(past) : hasRounds(past[k])}}

\* _uuid(): the k least IDs above `from` that are not in `used`
RECURSIVE FreshIds(_, _, _)
FreshIds(used, k, from) ==
    IF k = 0 THEN <<>>
    ELSE IF from \in used THEN FreshIds(used, k, from + 1)
         ELSE <<from>> \o FreshIds(used, k - 1, from + 1)

\* index of rounds.find(r => r.status === 'active'), 0 when there is none
ActiveIndex(t) ==
    IF ~hasRounds(t) \/ ~\E i \in 1..Len(t.rounds) : t.rounds[i].status = "active"
    THEN 0
    ELSE CHOOSE i \in 1..Len(t.rounds) :
             /\ t.rounds[i].status = "active"
             /\ \A j \in 1..(i - 1) : t.rounds[j].status # "active"

hasActiveRound(t) == ActiveIndex(t) # 0

getActiveRound(t) == t.rounds[ActiveIndex(t)]

isRoundComplete(t) ==
    IF ~hasActiveRound(t) THEN FALSE
    ELSE \A m \in Range(getActiveRound(t).matches) : m.isBye \/ m.result # NoResult

canCorrectResult(t, matchId) ==
    IF ~hasActiveRound(t) THEN FALSE
    ELSE \E m \in Range(getActiveRound(t).matches) : m.id = matchId

\* the test with the bye exclusion dropped from the wrong side: only byes count
anyResultOfByes(round) == \E m \in Range(round.matches) : m.result # NoResult /\ m.isBye

\* activeRound.matches.some(m => m.result !== null && !m.isBye)
anyResult(round) == \E m \in Range(round.matches) : m.result # NoResult /\ ~m.isBye

ByeResult(time) ==
    [player1Wins |-> ByeWins, player2Wins |-> 0, draws |-> 0,
     submittedAt |-> time, correctedAt |-> NoTime]

\* standings.map(s => s.playerId)
PlayerIdsOf(standings) == [i \in 1..Len(standings) |-> standings[i].playerId]

\* the player order pairNextRound pairs from
sortedPlayerIdsOf(t) ==
    IF Len(CompletedRounds(t)) = 0 THEN t.seatingOrder
    ELSE PlayerIdsOf(computeStandings(t.activePlayers, CompletedRounds(t)))

\* the bye pairNextRound assigns
byePlayerIdOf(sortedPlayerIds, completedRounds) ==
    IF Len(sortedPlayerIds) % 2 # 0
    THEN selectByePlayer(sortedPlayerIds, completedRounds)
    ELSE NoPlayer

\* the match objects of the new round, with fresh IDs
buildMatches(pairs, byePlayerId, used, time) ==
    [i \in 1..(Len(pairs) + (IF byePlayerId # NoPlayer THEN 1 ELSE 0)) |->
        IF i <= Len(pairs)
        THEN [id |-> FreshIds(used, i, 1)[i], player1Id |-> pairs[i].player1Id,
              player2Id |-> pairs[i].player2Id, isBye |-> FALSE, result |-> NoResult]
        ELSE [id |-> FreshIds(used, i, 1)[i], player1Id |-> byePlayerId,
              player2Id |-> NoPlayer, isBye |-> TRUE, result |-> ByeResult(time)]]

\* the matches pairNextRound makes from a player order
matchesFrom(sortedPlayerIds, completedRounds, byePlayerId, used, time) ==
    buildMatches(pairRound(sortedPlayerIds, completedRounds, byePlayerId),
                 byePlayerId, used, time)

\* History field of a round, not a field of the program's round object:
\* whether a rematch-free complete pairing of the players to schedule existed
\* when the round was paired.
cleanPairingExistedFor(sortedPlayerIds, byePlayerId, completedRounds) ==
    ExistsCleanPairing(Range(sortedPlayerIds) \ {byePlayerId},
                       PairsOfKeys(buildPriorMatchups(completedRounds)))

appendRound(t, nextRoundNumber, matches, clean) ==
    [t EXCEPT !.currentRound = nextRoundNumber,
              !.rounds = Append(@, [roundNumber |-> nextRoundNumber,
                                    status |-> "active",
                                    matches |-> matches,
                                    cleanPairingExisted |-> clean])]

\* the matches of the round pairNextRound() appends to tournament t
nextRoundMatches(t, sortedPlayerIds, past, time) ==
    matchesFrom(sortedPlayerIds, CompletedRounds(t),
                byePlayerIdOf(sortedPlayerIds, CompletedRounds(t)),
                UsedMatchIds(t, past), time)

\* pairNextRound() without its test of the tournament's status
pairNextRoundOnAnyStatus(t, past, time) ==
    IF ~hasRounds(t) THEN t
    ELSE appendRound(t, Len(CompletedRounds(t)) + 1,
                     nextRoundMatches(t, sortedPlayerIdsOf(t), past, time),
                     cleanPairingExistedFor(
                         sortedPlayerIdsOf(t),
                         byePlayerIdOf(sortedPlayerIdsOf(t), CompletedRounds(t)),
                         CompletedRounds(t)))

\* the state after pairNextRound() called on tournament t
pairNextRoundOn(t, past, time) ==
    IF t = NoTournament THEN t
    ELSE IF t.status # "active" THEN t
    ELSE appendRound(t, Len(CompletedRounds(t)) + 1,
                     nextRoundMatches(t, sortedPlayerIdsOf(t), past, time),
                     cleanPairingExistedFor(
                         sortedPlayerIdsOf(t),
                         byePlayerIdOf(sortedPlayerIdsOf(t), CompletedRounds(t)),
                         CompletedRounds(t)))

\* the filter keeping the wrong rounds: the completed ones are discarded
dropCompletedRounds(t, round) ==
    [t EXCEPT !.currentRound = round,
              !.rounds = SelectSeq(@, LAMBDA r : r.status # "complete")]

\* the first setState of repairActiveRound / repairRound1
dropActiveRounds(t, round) ==
    [t EXCEPT !.currentRound = round,
              !.rounds = SelectSeq(@, LAMBDA r : r.status # "active")]

---------------------------------------------------------------------------
(* Inputs of the transitions *)

\* the player lists createTournament is called with
CreateLists == {[i \in 1..n |-> i] : n \in (NumPlayers - 1)..NumPlayers}

\* the game counts submitResult is called with (RESULT_OPTIONS of the round screen)
ResultChoices ==
    {[player1Wins |-> 2, player2Wins |-> 0, draws |-> 0],
     [player1Wins |-> 1, player2Wins |-> 1, draws |-> 0]}

\* shuffle(arr) when Math.random() picks js[i] at step i (positions from 0)
RECURSIVE ShuffleFrom(_, _, _)
ShuffleFrom(arr, i, js) ==
    IF i < 1 THEN arr
    ELSE LET j == js[i]
             swapped == [arr EXCEPT ![i + 1] = arr[j + 1], ![j + 1] = arr[i + 1]]
         IN ShuffleFrom(swapped, i - 1, js)

\* a shuffle that overwrites the last element with a chosen one instead of
\* exchanging the two
shuffleOverwriting(arr) == {[arr EXCEPT ![Len(arr)] = arr[j]] : j \in 1..Len(arr)}

\* every outcome of shuffle(arr)
shuffle(arr) ==
    {ShuffleFrom(arr, Len(arr) - 1, js) :
        js \in {f \in [1..(Len(arr) - 1) -> 0..(Len(arr) - 1)] :
                   \A i \in 1..(Len(arr) - 1) : f[i] <= i}}

\* the store's state object
State(t, past) == [tournament |-> t, pastTournaments |-> past]

\* for (const fn of _subscribers) fn(_state), once for each state of the list:
\* the calls made, in order
Deliveries(subs, states) ==
    [n \in 1..(Len(states) * Len(subs)) |->
        [to |-> subs[((n - 1) % Len(subs)) + 1],
         state |-> states[((n - 1) \div Len(subs)) + 1]]]

\* the calls of the subscribers one operation makes: one round of calls for
\* each setState of the operation, with the state that setState leaves.  The
\* persistence side of the store is followed in SpecStore.
Notifies(states) ==
    /\ notified' = Deliveries(subscribers, states)
    /\ UNCHANGED <<subscribers, storage, writes, timer>>

\* the state the operation's only setState leaves
Delivered == State(tournament', pastTournaments')

\* one call of the operation op, returning value
Returns(op, value) ==
    /\ steps < MaxSteps
    /\ steps' = steps + 1
    /\ lastOp' = op
    /\ ret' = value

\* one call of the operation op that throws inside its updater or before it:
\* setState assigns nothing
Throws(op) ==
    /\ Returns(op, TypeError)
    /\ UNCHANGED <<tournament, pastTournaments, now>>
    /\ Notifies(<<>>)

---------------------------------------------------------------------------
(* state/tournament.js: transitions *)

\* createTournament() archiving the finished tournament without the history
createTournamentDroppingHistory(playerIds) ==
    LET archive == IF tournament # NoTournament /\ tournament.status = "complete"
                   THEN <<tournament>>
                   ELSE pastTournaments
    IN /\ Len(archive) <= MaxPast
       /\ pastTournaments' = archive
       /\ tournament' =
              [id |-> FreshIds(UsedTournamentIds(tournament, pastTournaments), 1, 1)[1],
               status |-> "active",
               currentRound |-> 0,
               activePlayers |-> playerIds,
               droppedPlayers |-> <<>>,
               rounds |-> <<>>,
               seatingOrder |-> playerIds]
       /\ Returns("createTournament", Undefined)
       /\ UNCHANGED now
       /\ Notifies(<<Delivered>>)

\* createTournament() archiving whatever tournament is in the slot
createTournamentArchivingAny(playerIds) ==
    LET archive == IF hasRounds(tournament)
                   THEN <<tournament>> \o pastTournaments
                   ELSE pastTournaments
    IN /\ steps < MaxSteps
       /\ Len(archive) <= MaxPast
       /\ pastTournaments' = archive
       /\ tournament' =
              [id |-> FreshIds(UsedTournamentIds(tournament, pastTournaments), 1, 1)[1],
               status |-> "active",
               currentRound |-> 0,
               activePlayers |-> playerIds,
               droppedPlayers |-> <<>>,
               rounds |-> <<>>,
               seatingOrder |-> playerIds]
       /\ Returns("createTournament", Undefined)
       /\ UNCHANGED now
       /\ Notifies(<<Delivered>>)

createTournament(playerIds) ==
    LET archive == IF tournament # NoTournament /\ tournament.status = "complete"
                   THEN <<tournament>> \o pastTournaments
                   ELSE pastTournaments
    IN /\ steps < MaxSteps
       /\ Len(archive) <= MaxPast
       /\ pastTournaments' = archive
       /\ tournament' =
              [id |-> FreshIds(UsedTournamentIds(tournament, pastTournaments), 1, 1)[1],
               status |-> "active",
               currentRound |-> 0,
               activePlayers |-> playerIds,
               droppedPlayers |-> <<>>,
               rounds |-> <<>>,
               seatingOrder |-> playerIds]
       /\ Returns("createTournament", Undefined)
       /\ UNCHANGED now
       /\ Notifies(<<Delivered>>)

reshuffleSeating ==
    /\ steps < MaxSteps
    /\ IF tournament = NoTournament THEN UNCHANGED tournament
       ELSE IF ~hasRounds(tournament) \/ tournament.currentRound # 0 THEN UNCHANGED tournament
       ELSE \E order \in shuffle(tournament.activePlayers) :
                tournament' = [tournament EXCEPT !.seatingOrder = order]
    /\ Returns("reshuffleSeating", Undefined)
    /\ UNCHANGED <<pastTournaments, now>>
    /\ Notifies(IF tournament = NoTournament THEN <<>>
                ELSE IF ~hasRounds(tournament) \/ tournament.currentRound # 0 THEN <<>>
                ELSE <<Delivered>>)

\* pairNextRound() reads tournament.rounds of an active tournament without rounds
pairNextRoundThrows(t) == t # NoTournament /\ t.status = "active" /\ ~hasRounds(t)

\* pairNextRound() on tournament t passes its guard and calls setState
pairNextRoundSets(t) == t # NoTournament /\ t.status = "active"

\* pairNextRound() on tournament t reads the clock: it stamps a bye match
stampsBye(t) ==
    /\ hasRounds(t)
    /\ t.status = "active"
    /\ Len(sortedPlayerIdsOf(t)) % 2 # 0

pairNextRound ==
    IF pairNextRoundThrows(tournament) THEN Throws("pairNextRound")
    ELSE \E time \in now..MaxTime :
         /\ steps < MaxSteps
         /\ ~stampsBye(tournament) => time = now
         /\ hasRounds(tournament) => Len(tournament.rounds) < MaxRounds
         /\ now' = time
         /\ tournament' = pairNextRoundOn(tournament, pastTournaments, time)
         /\ Returns("pairNextRound", Undefined)
         /\ UNCHANGED pastTournaments
         /\ Notifies(IF pairNextRoundSets(tournament) THEN <<Delivered>> ELSE <<>>)

\* the swap taking the players' matches whether or not a result was entered
swapPlayersInIgnoringResults(round, playerIdA, playerIdB) ==
    IF round.status # "active" THEN round
    ELSE LET pending(id) ==
                 {i \in 1..Len(round.matches) :
                     /\ (round.matches[i].player1Id = id \/ round.matches[i].player2Id = id)
                     /\ ~round.matches[i].isBye}
             first(S) == CHOOSE i \in S : \A j \in S : i <= j
         IN IF pending(playerIdA) = {} \/ pending(playerIdB) = {} THEN round
            ELSE LET matchA == round.matches[first(pending(playerIdA))]
                     matchB == round.matches[first(pending(playerIdB))]
                 IN IF matchA.id = matchB.id THEN round
                    ELSE [round EXCEPT !.matches =
                        [i \in 1..Len(round.matches) |->
                            LET m == round.matches[i]
                            IN IF m.id = matchA.id
                               THEN [m EXCEPT
                                   !.player1Id = IF m.player1Id = playerIdA THEN playerIdB ELSE @,
                                   !.player2Id = IF m.player2Id = playerIdA THEN playerIdB ELSE @]
                               ELSE IF m.id = matchB.id
                               THEN [m EXCEPT
                                   !.player1Id = IF m.player1Id = playerIdB THEN playerIdA ELSE @,
                                   !.player2Id = IF m.player2Id = playerIdB THEN playerIdA ELSE @]
                               ELSE m]]

\* the round after swapPlayers(a, b), for one round of rounds.map
swapPlayersIn(round, playerIdA, playerIdB) ==
    IF round.status # "active" THEN round
    ELSE LET pending(id) ==
                 {i \in 1..Len(round.matches) :
                     /\ (round.matches[i].player1Id = id \/ round.matches[i].player2Id = id)
                     /\ ~round.matches[i].isBye
                     /\ round.matches[i].result = NoResult}
             first(S) == CHOOSE i \in S : \A j \in S : i <= j
         IN IF pending(playerIdA) = {} \/ pending(playerIdB) = {} THEN round
            ELSE LET matchA == round.matches[first(pending(playerIdA))]
                     matchB == round.matches[first(pending(playerIdB))]
                 IN IF matchA.id = matchB.id THEN round
                    ELSE [round EXCEPT !.matches =
                        [i \in 1..Len(round.matches) |->
                            LET m == round.matches[i]
                            IN IF m.id = matchA.id
                               THEN [m EXCEPT
                                   !.player1Id = IF m.player1Id = playerIdA THEN playerIdB ELSE @,
                                   !.player2Id = IF m.player2Id = playerIdA THEN playerIdB ELSE @]
                               ELSE IF m.id = matchB.id
                               THEN [m EXCEPT
                                   !.player1Id = IF m.player1Id = playerIdB THEN playerIdA ELSE @,
                                   !.player2Id = IF m.player2Id = playerIdB THEN playerIdA ELSE @]
                               ELSE m]]

swapPlayers(playerIdA, playerIdB) ==
    IF ~hasRounds(tournament) THEN Throws("swapPlayers")
    ELSE /\ steps < MaxSteps
         /\ tournament' = [tournament EXCEPT !.rounds =
                [i \in 1..Len(tournament.rounds) |->
                    swapPlayersIn(tournament.rounds[i], playerIdA, playerIdB)]]
         /\ Returns("swapPlayers", Undefined)
         /\ UNCHANGED <<pastTournaments, now>>
         /\ Notifies(<<Delivered>>)

\* the round after reassignBye(newByePlayerId), for one round of rounds.map
reassignByeIn(round, newByePlayerId) ==
    IF round.status # "active" THEN round
    ELSE LET byes == {i \in 1..Len(round.matches) : round.matches[i].isBye}
             targets == {i \in 1..Len(round.matches) :
                            /\ ~round.matches[i].isBye
                            /\ round.matches[i].result = NoResult
                            /\ (round.matches[i].player1Id = newByePlayerId
                                \/ round.matches[i].player2Id = newByePlayerId)}
             first(S) == CHOOSE i \in S : \A j \in S : i <= j
         IN IF byes = {} THEN round
            ELSE LET oldByePlayerId == round.matches[first(byes)].player1Id
                 IN IF oldByePlayerId = newByePlayerId THEN round
                    ELSE IF targets = {} THEN round
                    ELSE LET targetMatch == round.matches[first(targets)]
                         IN [round EXCEPT !.matches =
                             [i \in 1..Len(round.matches) |->
                                 LET m == round.matches[i]
                                 IN IF m.isBye THEN [m EXCEPT !.player1Id = newByePlayerId]
                                    ELSE IF m.id = targetMatch.id
                                    THEN [m EXCEPT
                                        !.player1Id = IF m.player1Id = newByePlayerId
                                                      THEN oldByePlayerId ELSE @,
                                        !.player2Id = IF m.player2Id = newByePlayerId
                                                      THEN oldByePlayerId ELSE @]
                                    ELSE m]]

reassignBye(newByePlayerId) ==
    IF ~hasRounds(tournament) THEN Throws("reassignBye")
    ELSE /\ steps < MaxSteps
         /\ tournament' = [tournament EXCEPT !.rounds =
                [i \in 1..Len(tournament.rounds) |->
                    reassignByeIn(tournament.rounds[i], newByePlayerId)]]
         /\ Returns("reassignBye", Undefined)
         /\ UNCHANGED <<pastTournaments, now>>
         /\ Notifies(<<Delivered>>)

\* the state after repairActiveRound() called on tournament t
repairActiveRoundOn(t, past, time) ==
    IF t = NoTournament THEN t
    ELSE IF ~hasActiveRound(t) THEN t
    ELSE IF anyResult(getActiveRound(t)) THEN t
    ELSE pairNextRoundOn(dropActiveRounds(t, Len(CompletedRounds(t))), past, time)

\* repairActiveRound() on tournament t passes its guards and calls setState
repairActiveRoundSets(t) ==
    /\ t # NoTournament
    /\ hasActiveRound(t)
    /\ ~anyResult(getActiveRound(t))

\* tournament.rounds.find(...) on a tournament without rounds
findRoundThrows(t) == t # NoTournament /\ ~hasRounds(t)

repairActiveRound ==
    IF findRoundThrows(tournament) THEN Throws("repairActiveRound")
    ELSE \E time \in now..MaxTime :
         /\ steps < MaxSteps
         /\ (~repairActiveRoundSets(tournament)
              \/ ~stampsBye(dropActiveRounds(tournament, 0))) => time = now
         /\ now' = time
         /\ tournament' = repairActiveRoundOn(tournament, pastTournaments, time)
         /\ Returns("repairActiveRound", Undefined)
         /\ UNCHANGED pastTournaments
         /\ Notifies(IF ~repairActiveRoundSets(tournament) THEN <<>>
                     ELSE <<State(dropActiveRounds(tournament,
                                                   Len(CompletedRounds(tournament))),
                                  pastTournaments)>>
                          \o (IF pairNextRoundSets(tournament) THEN <<Delivered>>
                              ELSE <<>>))

\* the state after repairRound1() called on tournament t
repairRound1On(t, past, time) ==
    IF t = NoTournament THEN t
    ELSE IF ~hasActiveRound(t) THEN t
    ELSE IF getActiveRound(t).roundNumber # 1 THEN t
    ELSE IF anyResult(getActiveRound(t)) THEN t
    ELSE pairNextRoundOn(dropActiveRounds(t, 0), past, time)

\* repairRound1() on tournament t passes its guards and calls setState
repairRound1Sets(t) ==
    /\ t # NoTournament
    /\ hasActiveRound(t)
    /\ getActiveRound(t).roundNumber = 1
    /\ ~anyResult(getActiveRound(t))

repairRound1 ==
    IF findRoundThrows(tournament) THEN Throws("repairRound1")
    ELSE \E time \in now..MaxTime :
         /\ steps < MaxSteps
         /\ (~repairRound1Sets(tournament)
              \/ ~stampsBye(dropActiveRounds(tournament, 0))) => time = now
         /\ now' = time
         /\ tournament' = repairRound1On(tournament, pastTournaments, time)
         /\ Returns("repairRound1", Undefined)
         /\ UNCHANGED pastTournaments
         /\ Notifies(IF ~repairRound1Sets(tournament) THEN <<>>
                     ELSE <<State(dropActiveRounds(tournament, 0), pastTournaments)>>
                          \o (IF pairNextRoundSets(tournament) THEN <<Delivered>>
                              ELSE <<>>))

\* the write that stamps submittedAt anew on every submission
submitResultRestamping(match, matchId, result, time) ==
    IF match.id # matchId THEN match
    ELSE [match EXCEPT !.result =
             [player1Wins |-> result.player1Wins,
              player2Wins |-> result.player2Wins,
              draws |-> result.draws,
              submittedAt |-> time,
              correctedAt |-> IF match.result # NoResult THEN time ELSE NoTime]]

\* the match after submitResult(matchId, result) at the given time
submitResultTo(match, matchId, result, time) ==
    IF match.id # matchId THEN match
    ELSE [match EXCEPT !.result =
             [player1Wins |-> result.player1Wins,
              player2Wins |-> result.player2Wins,
              draws |-> result.draws,
              submittedAt |-> IF match.result # NoResult THEN match.result.submittedAt
                              ELSE time,
              correctedAt |-> IF match.result # NoResult THEN time ELSE NoTime]]

submitResult(matchId, result) ==
    IF ~hasRounds(tournament) THEN Throws("submitResult")
    ELSE \E time \in now..MaxTime :
         /\ steps < MaxSteps
         /\ (matchId \notin {m.id : m \in Range(AllMatches(tournament))}) => time = now
         /\ now' = time
         /\ tournament' = [tournament EXCEPT !.rounds =
                [i \in 1..Len(tournament.rounds) |->
                    [tournament.rounds[i] EXCEPT !.matches =
                        [k \in 1..Len(tournament.rounds[i].matches) |->
                            submitResultTo(tournament.rounds[i].matches[k],
                                           matchId, result, time)]]]]
         /\ Returns("submitResult", Undefined)
         /\ UNCHANGED pastTournaments
         /\ Notifies(<<Delivered>>)

\* the state after completeCurrentRound() called on tournament t
completeCurrentRoundOn(t) ==
    IF ~hasActiveRound(t) THEN t
    ELSE IF ~isRoundComplete(t) THEN t
    ELSE [t EXCEPT !.rounds =
             [i \in 1..Len(t.rounds) |->
                 IF t.rounds[i].roundNumber = getActiveRound(t).roundNumber
                 THEN [t.rounds[i] EXCEPT !.status = "complete"]
                 ELSE t.rounds[i]]]

\* the value completeCurrentRound() returns on tournament t
completeCurrentRoundValue(t) ==
    IF ~hasActiveRound(t) THEN "false"
    ELSE IF ~isRoundComplete(t) THEN "false"
    ELSE "true"

completeCurrentRound ==
    IF findRoundThrows(tournament) THEN Throws("completeCurrentRound")
    ELSE /\ steps < MaxSteps
         /\ tournament' = completeCurrentRoundOn(tournament)
         /\ Returns("completeCurrentRound", completeCurrentRoundValue(tournament))
         /\ UNCHANGED <<pastTournaments, now>>
         /\ Notifies(IF completeCurrentRoundValue(tournament) = "true" THEN <<Delivered>>
                     ELSE <<>>)

\* the updater of finishTournament(), on the tournament of the state
finishTournamentOn(t) ==
    IF t = NoTournament THEN StatusOnly("complete")
    ELSE [t EXCEPT !.status = "complete"]

finishTournament ==
    /\ steps < MaxSteps
    /\ tournament' = finishTournamentOn(tournament)
    /\ Returns("finishTournament", Undefined)
    /\ UNCHANGED <<pastTournaments, now>>
    /\ Notifies(<<Delivered>>)

addLateArrival(playerId) ==
    IF ~hasRounds(tournament) THEN Throws("addLateArrival")
    ELSE /\ steps < MaxSteps
         /\ playerId \notin Range(tournament.activePlayers)
         /\ tournament' = [tournament EXCEPT !.activePlayers = Append(@, playerId)]
         /\ Returns("addLateArrival", Undefined)
         /\ UNCHANGED <<pastTournaments, now>>
         /\ Notifies(<<Delivered>>)

dropPlayer(playerId) ==
    IF ~hasRounds(tournament) THEN Throws("dropPlayer")
    ELSE /\ steps < MaxSteps
         /\ playerId \in Range(tournament.activePlayers)
         /\ Len(tournament.droppedPlayers) < MaxDrops
         /\ tournament' = [tournament EXCEPT
                !.activePlayers = SelectSeq(@, LAMBDA id : id # playerId),
                !.droppedPlayers = Append(@, playerId)]
         /\ Returns("dropPlayer", Undefined)
         /\ UNCHANGED <<pastTournaments, now>>
         /\ Notifies(<<Delivered>>)

\* the updater of abandonTournament(), on the tournament of the state
abandonTournamentOn(t) == NoTournament

\* the updater of reopenCurrentTournament(), on the tournament of the state
reopenCurrentTournamentOn(t) ==
    IF t = NoTournament THEN t
    ELSE IF t.status # "complete" THEN t
    ELSE [t EXCEPT !.status = "active"]

reopenCurrentTournament ==
    /\ steps < MaxSteps
    /\ tournament' = reopenCurrentTournamentOn(tournament)
    /\ Returns("reopenCurrentTournament", Undefined)
    /\ UNCHANGED <<pastTournaments, now>>
    /\ Notifies(<<Delivered>>)

\* reopenTournament() leaving the reopened entry in the history
reopenTournamentKeepingEntry(tournamentId) ==
    LET found == {i \in 1..Len(pastTournaments) :
                     hasRounds(pastTournaments[i]) /\ pastTournaments[i].id = tournamentId}
    IN /\ IF tournament # NoTournament /\ tournament.status = "active"
          THEN UNCHANGED <<tournament, pastTournaments>>
          ELSE IF found = {} THEN UNCHANGED <<tournament, pastTournaments>>
          ELSE LET idx == CHOOSE i \in found : \A j \in found : i <= j
                   toReopen == pastTournaments[idx]
                   remaining == pastTournaments
               IN /\ tournament' = [toReopen EXCEPT !.status = "active"]
                  /\ pastTournaments' =
                         IF tournament # NoTournament
                         THEN <<tournament>> \o remaining
                         ELSE remaining
       /\ Returns("reopenTournament", Undefined)
       /\ UNCHANGED now
       /\ Notifies(<<Delivered>>)

reopenTournament(tournamentId) ==
    LET found == {i \in 1..Len(pastTournaments) :
                     hasRounds(pastTournaments[i]) /\ pastTournaments[i].id = tournamentId}
    IN /\ steps < MaxSteps
       /\ IF tournament # NoTournament /\ tournament.status = "active"
          THEN UNCHANGED <<tournament, pastTournaments>>
          ELSE IF found = {} THEN UNCHANGED <<tournament, pastTournaments>>
          ELSE LET idx == CHOOSE i \in found : \A j \in found : i <= j
                   toReopen == pastTournaments[idx]
                   remaining == RemoveAt(pastTournaments, idx)
               IN /\ tournament' = [toReopen EXCEPT !.status = "active"]
                  /\ pastTournaments' =
                         IF tournament # NoTournament
                         THEN <<tournament>> \o remaining
                         ELSE remaining
       /\ Returns("reopenTournament", Undefined)
       /\ UNCHANGED now
       /\ Notifies(<<Delivered>>)

---------------------------------------------------------------------------
(* The tournament state machine *)

Init ==
    /\ tournament = NoTournament
    /\ pastTournaments = <<>>
    /\ now = 0
    /\ lastOp = "load"
    /\ ret = Undefined
    /\ steps = 0
    /\ subscribers = <<1>>
    /\ notified = <<>>
    /\ storage = NoItem
    /\ writes = <<>>
    /\ timer = IdleTimer

MatchIds == 1..(MaxRounds * ((NumPlayers + 1) \div 2) + 1)

TournamentIds == 1..(MaxPast + 2)

Next ==
    \/ \E playerIds \in CreateLists : createTournament(playerIds)
    \/ reshuffleSeating
    \/ pairNextRound
    \/ \E a \in Players, b \in Players : swapPlayers(a, b)
    \/ \E p \in Players : reassignBye(p)
    \/ repairActiveRound
    \/ repairRound1
    \/ \E id \in MatchIds, r \in ResultChoices : submitResult(id, r)
    \/ completeCurrentRound
    \/ finishTournament
    \/ \E p \in Players : addLateArrival(p)
    \/ \E p \in Players : dropPlayer(p)
    \/ reopenCurrentTournament
    \/ \E id \in TournamentIds : reopenTournament(id)

Spec == Init /\ [][Next]_vars

---------------------------------------------------------------------------
(* state/tournament.js: the read-only queries among the transitions *)

\* one call of canCorrectResult(matchId): getActiveRound() reads
\* tournament.rounds, which throws for a tournament without rounds
queryCanCorrectResult(matchId) ==
    IF tournament # NoTournament /\ ~hasRounds(tournament)
    THEN Throws("canCorrectResult")
    ELSE /\ Returns("canCorrectResult",
                    IF canCorrectResult(tournament, matchId) THEN "true" ELSE "false")
         /\ UNCHANGED <<tournament, pastTournaments, now>>
         /\ Notifies(<<>>)

\* the transitions and the queries, in any order
NextQueries ==
    \/ Next
    \/ \E id \in MatchIds : queryCanCorrectResult(id)

SpecQueries == Init /\ [][NextQueries]_vars

---------------------------------------------------------------------------
(* useTimer: the hook's calls and the interval firing, in any order *)

InitTimer ==
    /\ tournament = NoTournament
    /\ pastTournaments = <<>>
    /\ now = 0
    /\ lastOp = "mount"
    /\ ret = Undefined
    /\ steps = 0
    /\ subscribers = <<>>
    /\ notified = <<>>
    /\ storage = NoItem
    /\ writes = <<>>
    /\ timer = IdleTimer

NextTimer ==
    \/ start
    \/ stop
    \/ tick
    \/ dismissAlarm
    \/ \E ms \in Durations : setDuration(ms)

SpecTimer == InitTimer /\ [][NextTimer]_vars

---------------------------------------------------------------------------
(* The pure functions applied to arbitrary inputs *)

\* the lists of distinct IDs over S
DistinctLists(S) == UNION {Perms(T) : T \in SUBSET S}

\* a tournament record holding the arguments of a pure function
InputTournament(activePlayers, rounds) ==
    [id |-> 1, status |-> "active", currentRound |-> Len(rounds),
     activePlayers |-> activePlayers, droppedPlayers |-> <<>>,
     rounds |-> rounds, seatingOrder |-> activePlayers]

InputResult(w) ==
    [player1Wins |-> w[1], player2Wins |-> w[2], draws |-> w[3],
     submittedAt |-> 0, correctedAt |-> NoTime]

\* the matches a round of the history may hold over the players S
InputMatches(S, results) ==
    {[id |-> 1, player1Id |-> p[1], player2Id |-> p[2], isBye |-> FALSE, result |-> r] :
        p \in {q \in S \X S : q[1] # q[2]}, r \in results}
    \cup {[id |-> 1, player1Id |-> a, player2Id |-> NoPlayer, isBye |-> TRUE,
           result |-> ByeResult(0)] : a \in S}

\* round k of a history: one status and at most one match, its ID the round's
InputRound(k, status, ms) ==
    [roundNumber |-> k, status |-> status,
     matches |-> [i \in 1..Len(ms) |-> [ms[i] EXCEPT !.id = k]],
     cleanPairingExisted |-> TRUE]

\* the histories of at most n rounds
InputHistories(S, results, statuses, n) ==
    {[k \in 1..Len(h) |-> InputRound(k, h[k][1], h[k][2])] :
        h \in SeqsUpTo(statuses \X SeqsUpTo(InputMatches(S, results), 1), n)}

StandResults ==
    {NoResult, InputResult(<<2, 0, 0>>), InputResult(<<1, 1, 0>>),
     InputResult(<<0, 2, 0>>), InputResult(<<1, 0, 1>>)}

InitStandings ==
    /\ tournament \in
           {InputTournament(p, h) :
               p \in DistinctLists(1..FnPlayers),
               h \in InputHistories(1..FnPlayers, StandResults,
                                    {"complete", "active"}, FnRounds)}
    /\ pastTournaments = <<>>
    /\ now = 0
    /\ lastOp = "input"
    /\ ret = Undefined
    /\ steps = 0
    /\ subscribers = <<>>
    /\ notified = <<>>
    /\ storage = NoItem
    /\ writes = <<>>
    /\ timer = IdleTimer

applyComputeStandings ==
    /\ lastOp = "input"
    /\ ret' = computeStandings(tournament.activePlayers, tournament.rounds)
    /\ lastOp' = "computeStandings"
    /\ UNCHANGED <<tournament, pastTournaments, now, steps,
                   subscribers, notified, storage, writes, timer>>

SpecStandings == InitStandings /\ [][applyComputeStandings]_vars

\* Longer histories of decided matches only, each round complete and holding
\* one match won 2-0 by its first player; the list is all the players in
\* ascending order (every other list of them is a renaming of this one).
InitTies ==
    /\ tournament \in
           {InputTournament([i \in 1..TiePlayers |-> i],
                            [k \in 1..TieRounds |-> InputRound(k, "complete", <<g[k]>>)]) :
               g \in [1..TieRounds ->
                         {m \in InputMatches(1..TiePlayers, {InputResult(<<2, 0, 0>>)}) :
                             ~m.isBye}]}
    /\ pastTournaments = <<>>
    /\ now = 0
    /\ lastOp = "input"
    /\ ret = Undefined
    /\ steps = 0
    /\ subscribers = <<>>
    /\ notified = <<>>
    /\ storage = NoItem
    /\ writes = <<>>
    /\ timer = IdleTimer

SpecTies == InitTies /\ [][applyComputeStandings]_vars

InitPairing ==
    /\ tournament \in
           {InputTournament(p, h) :
               p \in {q \in DistinctLists(1..PairPlayers) : Len(q) % 2 = 0},
               h \in InputHistories(1..PairPlayers, {InputResult(<<2, 0, 0>>)},
                                    {"complete"}, PairRounds)}
    /\ pastTournaments = <<>>
    /\ now = 0
    /\ lastOp = "input"
    /\ ret = Undefined
    /\ steps = 0
    /\ subscribers = <<>>
    /\ notified = <<>>
    /\ storage = NoItem
    /\ writes = <<>>
    /\ timer = IdleTimer

applyPairRound ==
    /\ lastOp = "input"
    /\ ret' = pairRound(tournament.activePlayers, tournament.rounds, NoPlayer)
    /\ lastOp' = "pairRound"
    /\ UNCHANGED <<tournament, pastTournaments, now, steps,
                   subscribers, notified, storage, writes, timer>>

SpecPairing == InitPairing /\ [][applyPairRound]_vars

InitBye ==
    /\ tournament \in
           {InputTournament(p, h) :
               p \in {q \in DistinctLists(1..ByePlayers) : Len(q) > 0},
               h \in InputHistories(1..ByePlayers, {InputResult(<<2, 0, 0>>)},
                                    {"complete"}, ByeRounds)}
    /\ pastTournaments = <<>>
    /\ now = 0
    /\ lastOp = "input"
    /\ ret = Undefined
    /\ steps = 0
    /\ subscribers = <<>>
    /\ notified = <<>>
    /\ storage = NoItem
    /\ writes = <<>>
    /\ timer = IdleTimer

applySelectByePlayer ==
    /\ lastOp = "input"
    /\ ret' = selectByePlayer(tournament.activePlayers, tournament.rounds)
    /\ lastOp' = "selectByePlayer"
    /\ UNCHANGED <<tournament, pastTournaments, now, steps,
                   subscribers, notified, storage, writes, timer>>

SpecBye == InitBye /\ [][applySelectByePlayer]_vars

---------------------------------------------------------------------------
(* store.js: the store itself, with its subscribers and its persistence *)

\* JSON.stringify(_state): the document written under STORAGE_KEY
Stringify(state) == [json |-> state]

\* the updaters setState is called with, by the name of their operation
StoreUpdaters == {"finishTournament", "abandonTournament", "reopenCurrentTournament"}

\* updater(_state)
applyUpdater(updater, state) ==
    State(CASE updater = "finishTournament" -> finishTournamentOn(state.tournament)
            [] updater = "abandonTournament" -> abandonTournamentOn(state.tournament)
            [] updater = "reopenCurrentTournament" ->
                   reopenCurrentTournamentOn(state.tournament),
          state.pastTournaments)

\* a tournament as createTournament() leaves it
CreatedTournament(playerIds) ==
    [id |-> 1, status |-> "active", currentRound |-> 0, activePlayers |-> playerIds,
     droppedPlayers |-> <<>>, rounds |-> <<>>, seatingOrder |-> playerIds]

\* the store after load(): nothing stored, or the document of an earlier run
InitStore ==
    /\ tournament \in {NoTournament} \cup {CreatedTournament(p) : p \in CreateLists}
    /\ pastTournaments = <<>>
    /\ now = 0
    /\ lastOp = "load"
    /\ ret = Undefined
    /\ steps = 0
    /\ subscribers = <<>>
    /\ notified = <<>>
    /\ storage = IF tournament = NoTournament THEN NoItem
                 ELSE Stringify(State(tournament, pastTournaments))
    /\ writes = <<>>
    /\ timer = IdleTimer

\* subscribe(fn), fn a function not subscribed yet: the screens pass a new
\* closure on every mount
subscribe(fn) ==
    /\ fn \notin Range(subscribers)
    /\ subscribers' = Append(subscribers, fn)
    /\ Returns("subscribe", Undefined)
    /\ UNCHANGED <<tournament, pastTournaments, now, notified, storage, writes, timer>>

\* the function subscribe(fn) returned, called
unsubscribe(fn) ==
    /\ subscribers' = SelectSeq(subscribers, LAMBDA g : g # fn)
    /\ Returns("unsubscribe", Undefined)
    /\ UNCHANGED <<tournament, pastTournaments, now, notified, storage, writes, timer>>

\* setState() calling the subscribers before it applies the updater
setStateNotifyingFirst(updater) ==
    /\ Len(writes) < MaxWrites
    /\ tournament' = applyUpdater(updater, State(tournament, pastTournaments)).tournament
    /\ pastTournaments' =
           applyUpdater(updater, State(tournament, pastTournaments)).pastTournaments
    /\ writes' = Append(writes, Stringify(State(tournament', pastTournaments')))
    /\ notified' = Deliveries(subscribers, <<State(tournament, pastTournaments)>>)
    /\ Returns("setState", Undefined)
    /\ UNCHANGED <<now, subscribers, storage, timer>>

setState(updater) ==
    /\ Len(writes) < MaxWrites
    /\ tournament' = applyUpdater(updater, State(tournament, pastTournaments)).tournament
    /\ pastTournaments' =
           applyUpdater(updater, State(tournament, pastTournaments)).pastTournaments
    /\ writes' = Append(writes, Stringify(State(tournament', pastTournaments')))
    /\ notified' = Deliveries(subscribers, <<State(tournament', pastTournaments')>>)
    /\ Returns("setState", Undefined)
    /\ UNCHANGED <<now, subscribers, storage, timer>>

\* the promise of the oldest AsyncStorage.setItem in flight resolves
persistSucceeds ==
    /\ writes # <<>>
    /\ storage' = Head(writes)
    /\ writes' = Tail(writes)
    /\ Returns("persistSucceeds", Undefined)
    /\ UNCHANGED <<tournament, pastTournaments, now, subscribers, notified, timer>>

\* the promise of the oldest AsyncStorage.setItem in flight rejects: the catch
\* handler logs the error
persistFails ==
    /\ writes # <<>>
    /\ writes' = Tail(writes)
    /\ Returns("persistFails", "logged")
    /\ UNCHANGED <<tournament, pastTournaments, now, subscribers, notified, storage, timer>>

getState ==
    /\ Returns("getState", State(tournament, pastTournaments))
    /\ UNCHANGED <<tournament, pastTournaments, now, subscribers, notified, storage, writes, timer>>

NextStore ==
    \/ \E fn \in 1..MaxSubscribers : subscribe(fn)
    \/ \E fn \in 1..MaxSubscribers : unsubscribe(fn)
    \/ \E updater \in StoreUpdaters : setState(updater)
    \/ persistSucceeds
    \/ persistFails
    \/ getState

SpecStore == InitStore /\ [][NextStore]_vars

---------------------------------------------------------------------------
(* store.js: load() and the migration of the stored document *)

\* Values of JSON.parse, by their kind.  An array is an object as well: it
\* can carry named properties beside its items.
JNull == [kind |-> "null"]
JNumber == [kind |-> "number"]
JString == [kind |-> "string"]
JBoolean == [kind |-> "boolean"]
JArray(items) == [kind |-> "array", items |-> items, fields |-> <<>>]
JObject(fields) == [kind |-> "object", fields |-> fields]

\* Array.isArray(v)
isArray(v) == v.kind = "array"

\* typeof v === 'object' and v is not null
isObject(v) == v.kind \in {"object", "array"}

\* name in v, v an object
hasField(v, name) == name \in DOMAIN v.fields

FieldNames == {"players", "tournament", "pastTournaments"}

\* the values a field of the stored document may hold
FieldValues == {JArray(<<>>), JArray(<<JString>>), JNull, JNumber, JObject(<<>>)}

\* the item AsyncStorage holds under STORAGE_KEY: nothing, a read that
\* rejects, the empty text, text that is not JSON, or the text of a value
ReadError == [error |-> "read"]
EmptyText == [text |-> "empty"]
Unparsable == [text |-> "unparsable"]
JsonText(value) == [text |-> "json", value |-> value]

StoredItems ==
    {NoItem, ReadError, EmptyText, Unparsable}
    \cup {JsonText(v) : v \in {JNull, JNumber, JString, JBoolean,
                               JArray(<<>>), JArray(<<JNumber>>)}}
    \cup {JsonText(JObject(f)) : f \in UNION {[S -> FieldValues] : S \in SUBSET FieldNames}}

freshState ==
    JObject([players |-> JArray(<<>>), tournament |-> JNull,
             pastTournaments |-> JArray(<<>>)])

\* _migrate() testing a field for absence only, not for being an array
migrateAbsentOnly(data) ==
    IF ~isObject(data) THEN freshState
    ELSE [data EXCEPT !.fields =
             [name \in DOMAIN data.fields \cup FieldNames |->
                 IF name \in {"players", "pastTournaments"}
                 THEN IF hasField(data, name) THEN data.fields[name] ELSE JArray(<<>>)
                 ELSE IF name = "tournament"
                 THEN IF hasField(data, name) THEN data.fields[name] ELSE JNull
                 ELSE data.fields[name]]]

\* _migrate(data)
migrate(data) ==
    IF ~isObject(data) THEN freshState
    ELSE [data EXCEPT !.fields =
             [name \in DOMAIN data.fields \cup FieldNames |->
                 IF name \in {"players", "pastTournaments"}
                 THEN IF hasField(data, name) /\ isArray(data.fields[name])
                      THEN data.fields[name] ELSE JArray(<<>>)
                 ELSE IF name = "tournament"
                 THEN IF hasField(data, name) THEN data.fields[name] ELSE JNull
                 ELSE data.fields[name]]]

\* the state load() leaves in memory for the stored item
loadedState(item) ==
    IF item = ReadError THEN freshState
    ELSE IF item = NoItem \/ item = EmptyText THEN freshState
    ELSE IF item = Unparsable THEN freshState
    ELSE migrate(item.value)

\* the store at boot, before load(): _state is null
InitLoad ==
    /\ storage \in StoredItems
    /\ tournament = NoTournament
    /\ pastTournaments = <<>>
    /\ now = 0
    /\ lastOp = "boot"
    /\ ret = Undefined
    /\ steps = 0
    /\ subscribers = <<>>
    /\ notified = <<>>
    /\ writes = <<>>
    /\ timer = IdleTimer

\* await load(): ret is the state in memory afterwards
load ==
    /\ lastOp = "boot"
    /\ ret' = loadedState(storage)
    /\ lastOp' = "load"
    /\ UNCHANGED <<tournament, pastTournaments, now, steps,
                   subscribers, notified, storage, writes, timer>>

SpecLoad == InitLoad /\ [][load]_vars

---------------------------------------------------------------------------
(* Properties *)

\* the state holds a tournament with its rounds
HasTournament == hasRounds(tournament)

ActiveRoundIndexes == {i \in 1..Len(tournament.rounds) : tournament.rounds[i].status = "active"}

\* the non-bye matches of a round
Played(round) == {i \in 1..Len(round.matches) : ~round.matches[i].isBye}

\* the unordered pair of a non-bye match
PairOf(m) == {m.player1Id, m.player2Id}

\* the unordered pairs of the non-bye matches of the first n rounds
PairsBefore(rounds, n) ==
    UNION {{PairOf(rounds[i].matches[k]) : k \in Played(rounds[i])} : i \in 1..(n - 1)}

\* no two rounds of the tournament carry the same round number
DistinctRoundNumbers ==
    \A i, j \in 1..Len(tournament.rounds) :
        i # j => tournament.rounds[i].roundNumber # tournament.rounds[j].roundNumber

(* C1: in every reachable state the tournament has at most one round whose
   status is 'active'. *)
C1_AtMostOneActiveRound ==
    HasTournament => Cardinality(ActiveRoundIndexes) <= 1

\* the player slots of a round: every player1Id, and every player2Id that is not null
RoundSlots(round) ==
    {<<k, 1>> : k \in 1..Len(round.matches)}
    \cup {<<k, 2>> : k \in {x \in 1..Len(round.matches) : round.matches[x].player2Id # NoPlayer}}

SlotPlayer(round, slot) ==
    IF slot[2] = 1 THEN round.matches[slot[1]].player1Id ELSE round.matches[slot[1]].player2Id

\* pairNextRound has just appended a round
JustPaired ==
    /\ lastOp = "pairNextRound"
    /\ HasTournament
    /\ tournament.status = "active"

LastRound == tournament.rounds[Len(tournament.rounds)]

(* C2: the round pairNextRound appends partitions the current activePlayers:
   every active player fills exactly one slot of the round's matches and every
   slot holds an active player. *)
C2_RoundPartitionsActivePlayers ==
    JustPaired =>
        /\ \A p \in Range(tournament.activePlayers) :
               Cardinality({s \in RoundSlots(LastRound) : SlotPlayer(LastRound, s) = p}) = 1
        /\ \A s \in RoundSlots(LastRound) :
               SlotPlayer(LastRound, s) \in Range(tournament.activePlayers)

(* C4: an unordered pair of players meets in at most one non-bye match over all
   rounds, unless the later round had no rematch-free complete pairing of its
   players (stated for tournaments whose round numbers are distinct). *)
C4_NoRematch ==
    (HasTournament /\ DistinctRoundNumbers) =>
        \A j \in 1..Len(tournament.rounds) : \A k \in Played(tournament.rounds[j]) :
            PairOf(tournament.rounds[j].matches[k]) \in PairsBefore(tournament.rounds, j)
            => ~tournament.rounds[j].cleanPairingExisted

\* the bye recipients of the first n rounds
ByeRecipientsBefore(rounds, n) ==
    UNION {{rounds[i].matches[k].player1Id :
               k \in {x \in 1..Len(rounds[i].matches) : rounds[i].matches[x].isBye}} :
           i \in 1..(n - 1)}

\* the players of a round
Roster(round) == {SlotPlayer(round, s) : s \in RoundSlots(round)}

(* C5: a player holds the bye of a round after having held the bye of an
   earlier round only if every other player of that round has held a bye
   before it (stated for tournaments whose round numbers are distinct). *)
C5_ByesRotate ==
    (HasTournament /\ DistinctRoundNumbers) =>
        \A j \in 1..Len(tournament.rounds) : \A k \in 1..Len(tournament.rounds[j].matches) :
            LET m == tournament.rounds[j].matches[k]
            IN (m.isBye /\ m.player1Id \in ByeRecipientsBefore(tournament.rounds, j))
               => Roster(tournament.rounds[j]) \ {m.player1Id}
                      \subseteq ByeRecipientsBefore(tournament.rounds, j)

\* pairRound has been applied to an even-sized list and a non-empty history
PairRoundApplied ==
    /\ lastOp = "pairRound"
    /\ Len(tournament.rounds) > 0
    /\ Len(tournament.activePlayers) % 2 = 0

PriorPairs == PairsOfKeys(buildPriorMatchups(tournament.rounds))

(* C3: for an even-sized list of distinct players and a non-empty list of
   completed rounds, if some complete pairing of the list avoids every prior
   matchup, the pairing pairRound returns contains no prior matchup. *)
C3_PairRoundAvoidsRematches ==
    (PairRoundApplied /\ ExistsCleanPairing(Range(tournament.activePlayers), PriorPairs))
    => \A i \in 1..Len(ret) : {ret[i].player1Id, ret[i].player2Id} \notin PriorPairs

\* the first player has not met the second but the other two have met, so the
\* first choice had to be taken back; a clean pairing exists and is returned
C3_Witness ==
    /\ PairRoundApplied
    /\ Len(tournament.activePlayers) = 4
    /\ ExistsCleanPairing(Range(tournament.activePlayers), PriorPairs)
    /\ {tournament.activePlayers[1], tournament.activePlayers[2]} \notin PriorPairs
    /\ {tournament.activePlayers[3], tournament.activePlayers[4]} \in PriorPairs
    /\ Len(ret) = 2
    /\ ret[1].player1Id = tournament.activePlayers[1]
    /\ ret[1].player2Id # tournament.activePlayers[2]

StandingsApplied == lastOp = "computeStandings"

AtLeastFloor(pct) == pct[1] * FloorDen >= FloorNum * pct[2]

(* C6: computeStandings returns exactly one Standing per listed player and no
   others, and each of mwPct, gwPct, omwPct and ogwPct is at least 33/100. *)
C6_OneStandingEachAndFloors ==
    StandingsApplied =>
        /\ Len(ret) = Len(tournament.activePlayers)
        /\ {ret[i].playerId : i \in 1..Len(ret)} = Range(tournament.activePlayers)
        /\ \A i \in 1..Len(ret) :
               /\ AtLeastFloor(ret[i].mwPct)
               /\ AtLeastFloor(ret[i].gwPct)
               /\ AtLeastFloor(ret[i].omwPct)
               /\ AtLeastFloor(ret[i].ogwPct)

\* a player who lost every match played, so that the floor is what is reported
C6_Witness ==
    /\ StandingsApplied
    /\ \E i \in 1..Len(ret) :
           /\ ret[i].matchesPlayed > 0
           /\ ret[i].matchPoints = 0
           /\ ret[i].mwPct = MIN_MATCH_WIN_PCT
           /\ ret[i].gwPct = MIN_GAME_WIN_PCT
           /\ \E k \in 1..Len(ret) : ret[k].omwPct = MIN_MATCH_WIN_PCT /\ Len(ret[k].opponents) > 0

\* the matches of the completed rounds of the history, as <<round, match>> indexes
CompletedMatchIndexes ==
    UNION {{<<i, k>> : k \in 1..Len(tournament.rounds[i].matches)} :
              i \in {j \in 1..Len(tournament.rounds) : tournament.rounds[j].status = "complete"}}

MatchAt(x) == tournament.rounds[x[1]].matches[x[2]]

\* own and opposing game wins of player p in a non-bye match with a result
OwnWins(m, p) == IF m.player1Id = p THEN m.result.player1Wins ELSE m.result.player2Wins
OtherWins(m, p) == IF m.player1Id = p THEN m.result.player2Wins ELSE m.result.player1Wins

ResultMatchesOf(p) ==
    {x \in CompletedMatchIndexes :
        /\ ~MatchAt(x).isBye
        /\ MatchAt(x).result # NoResult
        /\ p \in {MatchAt(x).player1Id, MatchAt(x).player2Id}}

WonBy(p) == {x \in ResultMatchesOf(p) : OwnWins(MatchAt(x), p) > OtherWins(MatchAt(x), p)}
LostBy(p) == {x \in ResultMatchesOf(p) : OwnWins(MatchAt(x), p) < OtherWins(MatchAt(x), p)}
DrawnBy(p) == {x \in ResultMatchesOf(p) : OwnWins(MatchAt(x), p) = OtherWins(MatchAt(x), p)}
ByesOf(p) == {x \in CompletedMatchIndexes : MatchAt(x).isBye /\ MatchAt(x).player1Id = p}

(* C7: every listed player's matchPoints is 3 per won match, 1 per drawn match
   and 3 per bye over the completed rounds, whether or not the opponent is in
   the list, and matchWins, matchLosses and matchDraws count those matches. *)
C7_MatchPointsCountEveryMatch ==
    StandingsApplied =>
        \A i \in 1..Len(ret) :
            LET p == ret[i].playerId
            IN /\ ret[i].matchPoints =
                      3 * Cardinality(WonBy(p)) + Cardinality(DrawnBy(p))
                      + 3 * Cardinality(ByesOf(p))
               /\ ret[i].matchWins = Cardinality(WonBy(p)) + Cardinality(ByesOf(p))
               /\ ret[i].matchLosses = Cardinality(LostBy(p))
               /\ ret[i].matchDraws = Cardinality(DrawnBy(p))

\* a sorts no later than b in the chain matchPoints, omwPct, gwPct, ogwPct
InOrder(a, b) ==
    \/ a.matchPoints > b.matchPoints
    \/ /\ a.matchPoints = b.matchPoints
       /\ \/ RatLess(b.omwPct, a.omwPct)
          \/ /\ a.omwPct = b.omwPct
             /\ \/ RatLess(b.gwPct, a.gwPct)
                \/ /\ a.gwPct = b.gwPct
                   /\ ~RatLess(a.ogwPct, b.ogwPct)

(* C8: the list computeStandings returns is ordered by matchPoints, then
   omwPct, then gwPct, then ogwPct, each descending: every entry is in order
   with every later entry. *)
C8_StandingsSorted ==
    StandingsApplied =>
        \A i \in 1..Len(ret) : \A k \in (i + 1)..Len(ret) : InOrder(ret[i], ret[k])

\* position of player p in the list given to computeStandings
InputPosition(p) == CHOOSE i \in 1..Len(tournament.activePlayers) : tournament.activePlayers[i] = p

\* two entries with equal points were ordered by omwPct against the order of
\* the input list, below an entry with more points
C8_Witness ==
    /\ StandingsApplied
    /\ Len(ret) = 3
    /\ ret[1].matchPoints > ret[2].matchPoints
    /\ ret[2].matchPoints = ret[3].matchPoints
    /\ RatLess(ret[3].omwPct, ret[2].omwPct)
    /\ RatLess(ret[2].gwPct, ret[3].gwPct)
    /\ InputPosition(ret[3].playerId) < InputPosition(ret[2].playerId)

\* the first active round holds a non-bye match without a result
ActiveRoundLacksResult ==
    \E m \in Range(tournament.rounds[ActiveIndex(tournament)].matches) :
        ~m.isBye /\ m.result = NoResult

\* the first active round holds a non-bye match with a result
ActiveRoundHasResult ==
    \E m \in Range(tournament.rounds[ActiveIndex(tournament)].matches) :
        ~m.isBye /\ m.result # NoResult

\* this step is a call of completeCurrentRound
CompleteCurrentRoundCalled == lastOp' = "completeCurrentRound" /\ steps' = steps + 1

(* C9: completeCurrentRound returns false and changes nothing when there is
   no active round or a non-bye match of the active round has no result;
   otherwise it returns true and the only change is the active round's status,
   which becomes 'complete'. *)
C9_CompleteCurrentRound ==
    [][CompleteCurrentRoundCalled =>
          IF ActiveIndex(tournament) = 0 \/ ActiveRoundLacksResult
          THEN /\ ret' = "false"
               /\ tournament' = tournament
               /\ pastTournaments' = pastTournaments
          ELSE /\ ret' = "true"
               /\ tournament' =
                      [tournament EXCEPT !.rounds[ActiveIndex(tournament)].status = "complete"]
               /\ pastTournaments' = pastTournaments]_vars

\* this step is a call of repairActiveRound or of repairRound1
RepairCalled == lastOp' \in {"repairActiveRound", "repairRound1"} /\ steps' = steps + 1

(* C10: when a non-bye match of the active round has a result, a call of
   repairActiveRound or of repairRound1 leaves the whole state unchanged. *)
C10_RepairKeepsEnteredResults ==
    [][(RepairCalled /\ ActiveIndex(tournament) # 0 /\ ActiveRoundHasResult)
          => tournament' = tournament /\ pastTournaments' = pastTournaments]_vars

\* repairActiveRound was called on an active round holding an entered result
\* next to a match still without one, and the round is still there
C10_Witness ==
    /\ lastOp \in {"repairActiveRound", "repairRound1"}
    /\ ActiveIndex(tournament) # 0
    /\ ActiveRoundHasResult
    /\ ActiveRoundLacksResult

\* pairRound has been applied to an even-sized list and an empty history
FoldApplied ==
    /\ lastOp = "pairRound"
    /\ Len(tournament.rounds) = 0
    /\ Len(tournament.activePlayers) % 2 = 0

(* C12: with no completed rounds, pairRound on an even-sized list of n players
   returns exactly the n/2 pairs (players[i], players[i + n/2]), in that order. *)
C12_FoldPairing ==
    FoldApplied =>
        /\ Len(ret) = Len(tournament.activePlayers) \div 2
        /\ \A i \in 1..Len(ret) :
               /\ ret[i].player1Id = tournament.activePlayers[i]
               /\ ret[i].player2Id =
                      tournament.activePlayers[i + Len(tournament.activePlayers) \div 2]

\* four players folded: seat 1 against seat 3 and seat 2 against seat 4
C12_Witness ==
    /\ FoldApplied
    /\ Len(tournament.activePlayers) = 4
    /\ ret = <<Pair(tournament.activePlayers[1], tournament.activePlayers[3]),
               Pair(tournament.activePlayers[2], tournament.activePlayers[4])>>

SelectByeApplied == lastOp = "selectByePlayer"

\* the players who are player1 of a bye match of the history
HadBye ==
    {tournament.rounds[i].matches[k].player1Id :
        <<i, k>> \in {x \in CompletedMatchIndexes : MatchAt(x).isBye}}

\* the positions of the list whose player has had no bye
ByeCandidates ==
    {i \in 1..Len(tournament.activePlayers) : tournament.activePlayers[i] \notin HadBye}

(* C13: selectByePlayer returns the player of greatest index in playerIds who
   is not player1 of a bye match of completedRounds, and the last element of
   playerIds when every player of the list has had a bye. *)
C13_SelectByePlayer ==
    SelectByeApplied =>
        IF ByeCandidates = {}
        THEN ret = tournament.activePlayers[Len(tournament.activePlayers)]
        ELSE \E i \in ByeCandidates :
                 /\ \A k \in ByeCandidates : k <= i
                 /\ ret = tournament.activePlayers[i]

\* three players, the last-ranked has had a bye and the others have not: the
\* bye goes to the second-last
C13_Witness ==
    /\ SelectByeApplied
    /\ Len(tournament.activePlayers) = 3
    /\ HadBye \cap Range(tournament.activePlayers) = {tournament.activePlayers[3]}
    /\ ret = tournament.activePlayers[2]

(* C14: for a non-empty history, when no complete pairing of the even-sized
   list avoids every prior matchup, pairRound returns the sequential pairing by
   list position: (players[0], players[1]), (players[2], players[3]), ... *)
C14_GreedyFallback ==
    (PairRoundApplied /\ ~ExistsCleanPairing(Range(tournament.activePlayers), PriorPairs))
    => /\ Len(ret) = Len(tournament.activePlayers) \div 2
       /\ \A k \in 1..Len(ret) :
              /\ ret[k].player1Id = tournament.activePlayers[2 * k - 1]
              /\ ret[k].player2Id = tournament.activePlayers[2 * k]

\* four players, every complete pairing holds a rematch, and the neighbours
\* are paired
C14_Witness ==
    /\ PairRoundApplied
    /\ Len(tournament.activePlayers) = 4
    /\ ~ExistsCleanPairing(Range(tournament.activePlayers), PriorPairs)
    /\ ret = <<Pair(tournament.activePlayers[1], tournament.activePlayers[2]),
               Pair(tournament.activePlayers[3], tournament.activePlayers[4])>>

\* the positions of rest whose player the first player may be paired with:
\* they have not met, and the others still admit a rematch-free pairing
ValidOpponents(first, rest, prior) ==
    {i \in 1..Len(rest) :
        /\ {first, rest[i]} \notin prior
        /\ ExistsCleanPairing(Range(rest) \ {rest[i]}, prior)}

\* the lexicographically first rematch-free pairing by opponent position, for
\* a list that admits one
RECURSIVE FirstCleanPairing(_, _)
FirstCleanPairing(players, prior) ==
    IF players = <<>> THEN <<>>
    ELSE LET first == Head(players)
             rest == Tail(players)
             i == CHOOSE x \in ValidOpponents(first, rest, prior) :
                      \A y \in ValidOpponents(first, rest, prior) : x <= y
         IN <<Pair(first, rest[i])>> \o FirstCleanPairing(RemoveAt(rest, i), prior)

(* C15: for a non-empty history, when a rematch-free complete pairing exists,
   pairRound returns the first one in depth-first order: the first unmatched
   player is paired with the earliest later player it has not met for which
   the rest still admits a rematch-free pairing, and so on recursively. *)
C15_FirstPairingInSearchOrder ==
    (PairRoundApplied /\ ExistsCleanPairing(Range(tournament.activePlayers), PriorPairs))
    => ret = FirstCleanPairing(tournament.activePlayers, PriorPairs)

\* the first player has met the second, so the third is its opponent although
\* the fourth would do as well
C15_Witness ==
    /\ PairRoundApplied
    /\ Len(tournament.activePlayers) = 4
    /\ PriorPairs = {{tournament.activePlayers[1], tournament.activePlayers[2]}}
    /\ ret = <<Pair(tournament.activePlayers[1], tournament.activePlayers[3]),
               Pair(tournament.activePlayers[2], tournament.activePlayers[4])>>

\* this step is a call of repairActiveRound
RepairActiveRoundCalled == lastOp' = "repairActiveRound" /\ steps' = steps + 1

\* the tournament with its active rounds discarded, as repairActiveRound leaves it
\* for pairNextRound
Discarded == dropActiveRounds(tournament, Len(CompletedRounds(tournament)))

(* C11: when repairActiveRound is called on a tournament whose active round
   has no non-bye result, afterwards the tournament has exactly one active
   round, with the round number of the discarded one, as many rounds as
   before, the same completed rounds, and the new round's matches are those
   pairNextRound makes from the completed rounds and the players. *)
C11_RepairRegeneratesActiveRound ==
    [][(RepairActiveRoundCalled /\ ActiveIndex(tournament) # 0 /\ ~ActiveRoundHasResult)
          => /\ hasRounds(tournament')
             /\ Cardinality({i \in 1..Len(tournament'.rounds) :
                                tournament'.rounds[i].status = "active"}) = 1
             /\ Len(tournament'.rounds) = Len(tournament.rounds)
             /\ CompletedRounds(tournament') = CompletedRounds(tournament)
             /\ tournament'.rounds[ActiveIndex(tournament')].roundNumber =
                    tournament.rounds[ActiveIndex(tournament)].roundNumber
             /\ tournament'.rounds[ActiveIndex(tournament')].matches =
                    nextRoundMatches(Discarded, sortedPlayerIdsOf(Discarded),
                                     pastTournaments, now')]_vars

\* the result holds the game counts 2-0-0
IsByeScore(result) ==
    /\ result # NoResult
    /\ result.player1Wins = 2
    /\ result.player2Wins = 0
    /\ result.draws = 0

(* C16: in every reachable state every bye match of the tournament has
   player2Id null and the result 2-0-0. *)
C16_ByeMatchesResolved ==
    HasTournament =>
        \A i \in 1..Len(tournament.rounds) :
            \A k \in 1..Len(tournament.rounds[i].matches) :
                tournament.rounds[i].matches[k].isBye =>
                    /\ tournament.rounds[i].matches[k].player2Id = NoPlayer
                    /\ IsByeScore(tournament.rounds[i].matches[k].result)

\* this step is a call of pairNextRound that pairs round 1 of a tournament
PairsRoundOne ==
    /\ lastOp' = "pairNextRound"
    /\ steps' = steps + 1
    /\ HasTournament
    /\ tournament.status = "active"
    /\ Len(CompletedRounds(tournament)) = 0

\* the seating order without its last player
SeatedButLast == SubSeq(tournament.seatingOrder, 1, Len(tournament.seatingOrder) - 1)

\* match m is the pending match of a against b
IsPendingMatch(m, a, b) ==
    /\ ~m.isBye
    /\ m.player1Id = a
    /\ m.player2Id = b
    /\ m.result = NoResult

(* C17: when pairNextRound pairs round 1 with an odd number n of active
   players, the new round is the fold pairing of the seating order without
   its last player, followed by one bye match for that last player (player2Id
   null, result 2-0-0); with an even number of active players the new round
   holds no bye match. *)
C17_RoundOneBye ==
    [][PairsRoundOne =>
          /\ Len(tournament'.rounds) = Len(tournament.rounds) + 1
          /\ LET new == tournament'.rounds[Len(tournament'.rounds)].matches
                 half == (Len(tournament.activePlayers) - 1) \div 2
             IN IF Len(tournament.activePlayers) % 2 = 1
                THEN /\ Len(new) = half + 1
                     /\ \A i \in 1..half :
                            IsPendingMatch(new[i], SeatedButLast[i], SeatedButLast[i + half])
                     /\ new[half + 1].isBye
                     /\ new[half + 1].player1Id =
                            tournament.seatingOrder[Len(tournament.seatingOrder)]
                     /\ new[half + 1].player2Id = NoPlayer
                     /\ IsByeScore(new[half + 1].result)
                ELSE \A k \in 1..Len(new) : ~new[k].isBye]_vars

\* this step is a call of pairNextRound
PairNextRoundCalled == lastOp' = "pairNextRound" /\ steps' = steps + 1

(* C18: pairNextRound leaves the whole state unchanged and raises no error
   when there is no tournament or the tournament's status is not 'active';
   and no step appends a round to a tournament whose status is 'complete'. *)
C18_PairNextRoundNeedsActiveTournament ==
    [][/\ (PairNextRoundCalled
              /\ (tournament = NoTournament \/ tournament.status # "active"))
          => /\ tournament' = tournament
             /\ pastTournaments' = pastTournaments
             /\ ret' = Undefined
       /\ (HasTournament /\ tournament.status = "complete"
              /\ hasRounds(tournament') /\ tournament'.id = tournament.id)
          => Len(tournament'.rounds) <= Len(tournament.rounds)]_vars

\* pairNextRound was called on a finished tournament that holds a round
C18_Witness ==
    /\ lastOp = "pairNextRound"
    /\ ret = Undefined
    /\ HasTournament
    /\ tournament.status = "complete"
    /\ Len(tournament.rounds) > 0

\* the transitions that are invalid without a tournament
NeedTournament ==
    {"submitResult", "swapPlayers", "reassignBye", "finishTournament", "dropPlayer",
     "addLateArrival", "completeCurrentRound", "repairActiveRound"}

(* C19: each of submitResult, swapPlayers, reassignBye, finishTournament,
   dropPlayer, addLateArrival, completeCurrentRound and repairActiveRound,
   called when state.tournament is null, raises no error and leaves
   state.tournament null and the rest of the state unchanged. *)
C19_NoTournamentNoOp ==
    [][(tournament = NoTournament /\ steps' = steps + 1 /\ lastOp' \in NeedTournament)
          => /\ ret' # TypeError
             /\ tournament' = NoTournament
             /\ pastTournaments' = pastTournaments]_vars

\* the matches of the completed rounds of tournament t
CompletedMatches(t) ==
    Flatten([i \in 1..Len(CompletedRounds(t)) |-> CompletedRounds(t)[i].matches])

\* round q is the completed round r, but for the results of its matches
SameRoundButResults(r, q) ==
    /\ q.status = "complete"
    /\ q.roundNumber = r.roundNumber
    /\ Len(q.matches) = Len(r.matches)
    /\ \A k \in 1..Len(r.matches) :
           /\ q.matches[k].id = r.matches[k].id
           /\ q.matches[k].player1Id = r.matches[k].player1Id
           /\ q.matches[k].player2Id = r.matches[k].player2Id
           /\ q.matches[k].isBye = r.matches[k].isBye

\* the tournaments the state holds with their rounds, current or archived
TournamentsOf(t, past) ==
    (IF hasRounds(t) THEN {t} ELSE {})
    \cup {past[i] : i \in {k \in 1..Len(past) : hasRounds(past[k])}}

\* the IDs of the matches of completed rounds of t whose result differs in u
CorrectedIds(t, u) ==
    {m.id : m \in {x \in Range(CompletedMatches(t)) :
                      \E y \in Range(AllMatches(u)) : y.id = x.id /\ y.result # x.result}}

\* the completed rounds of t are completed rounds of u, in the same order and
\* with the same matches but for their results
KeepsCompletedRounds(t, u) ==
    /\ Len(CompletedRounds(u)) >= Len(CompletedRounds(t))
    /\ \E f \in [1..Len(CompletedRounds(t)) -> 1..Len(CompletedRounds(u))] :
           /\ \A i, j \in DOMAIN f : i < j => f[i] < f[j]
           /\ \A i \in DOMAIN f :
                  SameRoundButResults(CompletedRounds(t)[i], CompletedRounds(u)[f[i]])

(* C20: in every step, for every tournament the state holds before and after
   (current or archived), each completed round is still present afterwards,
   complete, with the same matches (IDs, players, isBye); a result of a
   completed round changes only in a submitResult step, and then for one
   match ID. *)
C20_CompletedRoundsImmutable ==
    [][\A t \in TournamentsOf(tournament, pastTournaments) :
          \A u \in TournamentsOf(tournament', pastTournaments') :
              u.id = t.id =>
                  /\ KeepsCompletedRounds(t, u)
                  /\ CorrectedIds(t, u) # {} =>
                         lastOp' = "submitResult" /\ Cardinality(CorrectedIds(t, u)) = 1]_vars

\* repairActiveRound has regenerated the active round of a tournament that
\* holds a completed round
C20_Witness ==
    /\ lastOp = "repairActiveRound"
    /\ HasTournament
    /\ tournament.status = "active"
    /\ Len(CompletedRounds(tournament)) > 0
    /\ ActiveIndex(tournament) # 0
    /\ ~ActiveRoundHasResult

\* this step is a call of submitResult
SubmitResultCalled == lastOp' = "submitResult" /\ steps' = steps + 1

\* the result object a write of the game counts r leaves, given its two stamps
Stamped(r, submittedAt, correctedAt) ==
    [player1Wins |-> r.player1Wins, player2Wins |-> r.player2Wins, draws |-> r.draws,
     submittedAt |-> submittedAt, correctedAt |-> correctedAt]

\* match m2 is match m after a submission of r for it at the given time
WrittenTo(m, m2, r, time) ==
    /\ m2 = [m EXCEPT !.result = m2.result]
    /\ m.result = NoResult => m2.result = Stamped(r, time, NoTime)
    /\ m.result # NoResult => m2.result = Stamped(r, m.result.submittedAt, time)

(* C21: submitResult(matchId, r) on a match without result sets the result
   to r with submittedAt the current time and correctedAt null; on a match
   with a result it replaces the game counts by r, keeps submittedAt and
   sets correctedAt to the current time; every other match, and so every
   other submittedAt and correctedAt, is left as it was. *)
C21_SubmitResultStamps ==
    [][(SubmitResultCalled /\ HasTournament) =>
          \A id \in MatchIds, r \in ResultChoices :
              submitResult(id, r)
              => /\ hasRounds(tournament')
                 /\ Len(tournament'.rounds) = Len(tournament.rounds)
                 /\ \A i \in 1..Len(tournament.rounds) :
                        /\ Len(tournament'.rounds[i].matches) = Len(tournament.rounds[i].matches)
                        /\ \A k \in 1..Len(tournament.rounds[i].matches) :
                               IF tournament.rounds[i].matches[k].id = id
                               THEN WrittenTo(tournament.rounds[i].matches[k],
                                              tournament'.rounds[i].matches[k], r, now')
                               ELSE tournament'.rounds[i].matches[k] =
                                        tournament.rounds[i].matches[k]]_vars

\* after a submission, a two-player match holds a result corrected later than
\* it was first submitted, and another match holds a first result
C21_Witness ==
    /\ lastOp = "submitResult"
    /\ HasTournament
    /\ \E m \in Range(AllMatches(tournament)) :
           /\ ~m.isBye
           /\ m.result # NoResult
           /\ m.result.correctedAt # NoTime
           /\ m.result.correctedAt > m.result.submittedAt
    /\ \E m \in Range(AllMatches(tournament)) :
           /\ ~m.isBye
           /\ m.result # NoResult
           /\ m.result.correctedAt = NoTime

\* this step is a call of swapPlayers
SwapPlayersCalled == lastOp' = "swapPlayers" /\ steps' = steps + 1

\* the indexes of the matches of the round that hold the player, have two
\* players and no result
PendingOf(round, id) ==
    {k \in 1..Len(round.matches) :
        /\ ~round.matches[k].isBye
        /\ round.matches[k].result = NoResult
        /\ (round.matches[k].player1Id = id \/ round.matches[k].player2Id = id)}

\* match m with player `new` in the slot of player `old`
Seated(m, old, new) ==
    IF m.player1Id = old THEN [m EXCEPT !.player1Id = new]
    ELSE [m EXCEPT !.player2Id = new]

\* the tournament with matches ia and ib of round n replaced by ma and mb
WithMatches(t, n, ia, ma, ib, mb) ==
    [t EXCEPT !.rounds[n].matches =
        [k \in 1..Len(@) |-> IF k = ia THEN ma ELSE IF k = ib THEN mb ELSE @[k]]]

\* the state after swapPlayers(a, b) as the contract describes it
Swapped(a, b) ==
    IF ~HasTournament \/ ActiveIndex(tournament) = 0 THEN tournament
    ELSE IF \E ia \in PendingOf(getActiveRound(tournament), a),
               ib \in PendingOf(getActiveRound(tournament), b) : ia # ib
    THEN LET ia == CHOOSE k \in PendingOf(getActiveRound(tournament), a) :
                       \E j \in PendingOf(getActiveRound(tournament), b) : j # k
             ib == CHOOSE k \in PendingOf(getActiveRound(tournament), b) : k # ia
         IN WithMatches(tournament, ActiveIndex(tournament),
                        ia, Seated(getActiveRound(tournament).matches[ia], a, b),
                        ib, Seated(getActiveRound(tournament).matches[ib], b, a))
    ELSE tournament

(* C22: swapPlayers(a, b) exchanges a and b between their two different
   pending two-player matches of the active round and changes nothing else;
   when either player has no such match, both are in the same match, or
   there is no active round, the tournament is left as it was. *)
C22_SwapPlayers ==
    [][SwapPlayersCalled =>
          \A a \in Players, b \in Players :
              swapPlayers(a, b) => /\ tournament' = Swapped(a, b)
                                   /\ pastTournaments' = pastTournaments]_vars

\* this step is a call of reassignBye
ReassignByeCalled == lastOp' = "reassignBye" /\ steps' = steps + 1

\* the indexes of the bye matches of the round
ByesIn(round) == {k \in 1..Len(round.matches) : round.matches[k].isBye}

\* the state after reassignBye(newId) as the contract describes it
Reassigned(newId) ==
    IF ~HasTournament \/ ActiveIndex(tournament) = 0 THEN tournament
    ELSE IF ByesIn(getActiveRound(tournament)) = {} THEN tournament
    ELSE LET ib == CHOOSE k \in ByesIn(getActiveRound(tournament)) : TRUE
             old == getActiveRound(tournament).matches[ib].player1Id
         IN IF old = newId \/ PendingOf(getActiveRound(tournament), newId) = {}
            THEN tournament
            ELSE LET it == CHOOSE k \in PendingOf(getActiveRound(tournament), newId) : TRUE
                 IN WithMatches(tournament, ActiveIndex(tournament),
                        ib, [getActiveRound(tournament).matches[ib]
                                EXCEPT !.player1Id = newId],
                        it, Seated(getActiveRound(tournament).matches[it], newId, old))

(* C23: reassignBye(newId) gives the bye match of the active round to newId
   and seats the previous recipient in newId's slot of newId's pending
   two-player match, all other matches unchanged; when the active round has
   no bye match, newId holds the bye already, or newId has no pending
   two-player match, the tournament is left as it was. *)
C23_ReassignBye ==
    [][ReassignByeCalled =>
          \A newId \in Players :
              reassignBye(newId) => /\ tournament' = Reassigned(newId)
                                    /\ pastTournaments' = pastTournaments]_vars

\* this step is a call of createTournament
CreateTournamentCalled == lastOp' = "createTournament" /\ steps' = steps + 1

\* the last n entries of list s
LastOf(s, n) == SubSeq(s, Len(s) - n + 1, Len(s))

(* C24: createTournament(playerIds) leaves a tournament of status active
   with no rounds, currentRound 0, no dropped players and playerIds as both
   its active players and its seating order; a tournament of status complete
   that was in the slot is the first entry of pastTournaments afterwards,
   and the entries pastTournaments held before are all still there, in
   their order. *)
C24_CreateTournament ==
    [][CreateTournamentCalled =>
          \A playerIds \in CreateLists :
              createTournament(playerIds)
              => /\ hasRounds(tournament')
                 /\ tournament'.status = "active"
                 /\ tournament'.rounds = <<>>
                 /\ tournament'.currentRound = 0
                 /\ tournament'.droppedPlayers = <<>>
                 /\ tournament'.activePlayers = playerIds
                 /\ tournament'.seatingOrder = playerIds
                 /\ (tournament # NoTournament /\ tournament.status = "complete")
                        => /\ Len(pastTournaments') > 0
                           /\ pastTournaments'[1] = tournament
                 /\ Len(pastTournaments') >= Len(pastTournaments)
                 /\ LastOf(pastTournaments', Len(pastTournaments)) = pastTournaments]_vars

\* a tournament was created over a finished one, which is now the first entry
\* of the history, before an older entry that holds a round
C24_Witness ==
    /\ lastOp = "createTournament"
    /\ HasTournament
    /\ tournament.rounds = <<>>
    /\ Len(pastTournaments) = 2
    /\ hasRounds(pastTournaments[1])
    /\ pastTournaments[1].status = "complete"
    /\ hasRounds(pastTournaments[2])
    /\ Len(pastTournaments[2].rounds) > 0
    /\ pastTournaments[1].id # pastTournaments[2].id

\* this step is a call of reopenTournament
ReopenTournamentCalled == lastOp' = "reopenTournament" /\ steps' = steps + 1

\* this step is a call of reopenCurrentTournament
ReopenCurrentCalled == lastOp' = "reopenCurrentTournament" /\ steps' = steps + 1

\* the history entries that carry the id
EntriesWith(id) ==
    {i \in 1..Len(pastTournaments) :
        hasRounds(pastTournaments[i]) /\ pastTournaments[i].id = id}

\* tournament u is tournament t but for its status
SameButStatus(t, u) ==
    /\ DOMAIN u = DOMAIN t
    /\ \A f \in DOMAIN t \ {"status"} : u[f] = t[f]

\* list s without its entries that carry the id
WithoutId(s, id) == SelectSeq(s, LAMBDA t : ~(hasRounds(t) /\ t.id = id))

(* C25: reopenTournament(id) changes nothing when the tournament in the slot
   has status active or no history entry carries id; otherwise the entry
   becomes the current tournament with status active and nothing else of it
   changed, the history loses it, and the tournament that was in the slot,
   if any, is the first entry of the history.  reopenCurrentTournament turns
   the status of a complete current tournament to active and changes nothing
   else, and is a no-op otherwise. *)
C25_Reopen ==
    [][/\ ReopenTournamentCalled =>
             \A id \in TournamentIds :
                 reopenTournament(id)
                 => IF (tournament # NoTournament /\ tournament.status = "active")
                       \/ EntriesWith(id) = {}
                    THEN tournament' = tournament /\ pastTournaments' = pastTournaments
                    ELSE /\ \E i \in EntriesWith(id) :
                                SameButStatus(pastTournaments[i], tournament')
                         /\ tournament'.status = "active"
                         /\ pastTournaments' =
                                (IF tournament # NoTournament THEN <<tournament>> ELSE <<>>)
                                \o WithoutId(pastTournaments, id)
       /\ ReopenCurrentCalled =>
             /\ pastTournaments' = pastTournaments
             /\ IF tournament # NoTournament /\ tournament.status = "complete"
                THEN SameButStatus(tournament, tournament') /\ tournament'.status = "active"
                ELSE tournament' = tournament]_vars

\* a history entry that holds a round was reopened over a finished
\* tournament, which is now the first entry of the history
C25_Witness ==
    /\ lastOp = "reopenTournament"
    /\ HasTournament
    /\ tournament.status = "active"
    /\ Len(tournament.rounds) > 0
    /\ Len(pastTournaments) > 0
    /\ hasRounds(pastTournaments[1])
    /\ pastTournaments[1].status = "complete"
    /\ pastTournaments[1].id > tournament.id

\* this step is a call of dropPlayer
DropPlayerCalled == lastOp' = "dropPlayer" /\ steps' = steps + 1

\* the players of tournament t that were dropped and did not arrive again
Departed(t) == Range(t.droppedPlayers) \ Range(t.activePlayers)

\* this step makes a round by pairNextRound: called by itself it appends one,
\* called by a repair it replaces the active round
MakesRound ==
    /\ steps' = steps + 1
    /\ HasTournament
    /\ hasRounds(tournament')
    /\ \/ lastOp' = "pairNextRound" /\ Len(tournament'.rounds) = Len(tournament.rounds) + 1
       \/ /\ lastOp' \in {"repairActiveRound", "repairRound1"}
          /\ Len(tournament'.rounds) = Len(tournament.rounds)
          /\ tournament'.rounds # tournament.rounds

\* the players seated in the round
SeatedIn(round) == {SlotPlayer(round, s) : s \in RoundSlots(round)}

(* C26: a round made by pairNextRound holds no player who was dropped and
   did not arrive again, round 1 included; and dropPlayer changes no round. *)
C26_DroppedPlayersNotPaired ==
    [][/\ MakesRound =>
             SeatedIn(tournament'.rounds[Len(tournament'.rounds)])
                 \cap Departed(tournament) = {}
       /\ (DropPlayerCalled /\ HasTournament) =>
             hasRounds(tournament') /\ tournament'.rounds = tournament.rounds]_vars

(* C27: every state the last operation delivered to a subscriber is the state
   the operation leaves when it returns; no subscriber is called with a state
   from inside the operation. *)
C27_SubscribersSeeFinalStates ==
    \A i \in 1..Len(notified) : notified[i].state = State(tournament, pastTournaments)

\* this step is a call of setState
SetStateCalled == lastOp' = "setState" /\ steps' = steps + 1

\* this step is the end of a persistence write
WriteEnds == lastOp' \in {"persistSucceeds", "persistFails"} /\ steps' = steps + 1

(* C28: setState(updater), whatever writes are in flight and however earlier
   writes ended, leaves updater(state) in memory and calls every subscriber
   of the moment exactly once, with that new state; the end of a write,
   failed or not, changes neither the state in memory nor what the
   subscribers were called with; and getState returns the state in memory. *)
C28_SetStateNotifiesWhateverPersistence ==
    [][/\ SetStateCalled =>
             \A updater \in StoreUpdaters :
                 setState(updater)
                 => /\ State(tournament', pastTournaments') =
                           applyUpdater(updater, State(tournament, pastTournaments))
                    /\ Len(notified') = Len(subscribers)
                    /\ \A fn \in Range(subscribers) :
                           Cardinality({i \in 1..Len(notified') : notified'[i].to = fn}) = 1
                    /\ \A i \in 1..Len(notified') :
                           notified'[i].state = State(tournament', pastTournaments')
       /\ WriteEnds =>
             /\ tournament' = tournament
             /\ pastTournaments' = pastTournaments
             /\ notified' = notified
       /\ (lastOp' = "getState" /\ steps' = steps + 1) =>
             ret' = State(tournament, pastTournaments)]_vars

\* a write failed after a setState that changed the state and called two
\* subscribers: nothing is stored, the new state is in memory
C28_Witness ==
    /\ lastOp = "persistFails"
    /\ Len(notified) = 2
    /\ notified[1].to # notified[2].to
    /\ notified[1].state = State(tournament, pastTournaments)
    /\ tournament = StatusOnly("complete")
    /\ storage = NoItem
    /\ writes = <<>>

\* the stored item holds no document: nothing, a failed read, or text that
\* does not parse to an object
HoldsNoDocument(item) ==
    \/ item \in {NoItem, ReadError, EmptyText, Unparsable}
    \/ item.value.kind \notin {"object", "array"}

(* C29: after load(), whatever was stored, the state in memory is an object
   with players a list, a tournament field and pastTournaments a list; the
   tournament field is null when the document had none; and an item that
   holds no document, or a document without any of the fields, gives the
   fresh state. *)
C29_LoadDefaults ==
    lastOp = "load" =>
        /\ ret.kind \in {"object", "array"}
        /\ FieldNames \subseteq DOMAIN ret.fields
        /\ ret.fields["players"].kind = "array"
        /\ ret.fields["pastTournaments"].kind = "array"
        /\ HoldsNoDocument(storage) => ret = freshState
        /\ ~HoldsNoDocument(storage) =>
               /\ "tournament" \notin DOMAIN storage.value.fields
                      => ret.fields["tournament"] = JNull
               /\ storage.value = JObject(<<>>) => ret = freshState

\* load() has run on a document whose players field is not a list and that
\* has no tournament field
C29_Witness ==
    /\ lastOp = "load"
    /\ storage = JsonText(JObject([players |-> JNumber, pastTournaments |-> JArray(<<JString>>)]))
    /\ ret = JObject([players |-> JArray(<<>>), tournament |-> JNull,
                      pastTournaments |-> JArray(<<JString>>)])

\* the players computeStandings was given
Listed == Range(tournament.activePlayers)

\* the two-player matches of player p that computeStandings counts: completed,
\* with a result, both players listed
CountedMatchesOf(p) ==
    {x \in ResultMatchesOf(p) : {MatchAt(x).player1Id, MatchAt(x).player2Id} \subseteq Listed}

\* the opponent of player p in match m
OpponentIn(m, p) == IF m.player1Id = p THEN m.player2Id ELSE m.player1Id

\* games of a result
GamesOf(m) == m.result.player1Wins + m.result.player2Wins + m.result.draws

\* the games player p won, and played, over the matches S
RECURSIVE GamesWonOver(_, _)
GamesWonOver(S, p) ==
    IF S = {} THEN 0
    ELSE LET x == CHOOSE y \in S : TRUE
         IN OwnWins(MatchAt(x), p) + GamesWonOver(S \ {x}, p)

RECURSIVE GamesPlayedOver(_)
GamesPlayedOver(S) ==
    IF S = {} THEN 0
    ELSE LET x == CHOOSE y \in S : TRUE
         IN GamesOf(MatchAt(x)) + GamesPlayedOver(S \ {x})

(* C30: in the standings, each bye of a listed player in a completed round
   counts one match win, 3 match points, 2 games won and 2 games played on
   top of what the player's counted two-player matches give, and sets
   hasBye; the opponent list of every player holds one entry for each
   counted two-player match, the opponent in it, and none for a bye. *)
C30_ByeCredit ==
    StandingsApplied =>
        \A i \in 1..Len(ret) :
            LET p == ret[i].playerId
                byes == Cardinality(ByesOf(p))
            IN /\ ret[i].matchWins = Cardinality(WonBy(p) \cap CountedMatchesOf(p)) + byes
               /\ ret[i].matchPoints =
                      3 * Cardinality(WonBy(p) \cap CountedMatchesOf(p))
                      + Cardinality(DrawnBy(p) \cap CountedMatchesOf(p))
                      + 3 * byes
               /\ ret[i].gamesWon = GamesWonOver(CountedMatchesOf(p), p) + 2 * byes
               /\ ret[i].gamesPlayed = GamesPlayedOver(CountedMatchesOf(p)) + 2 * byes
               /\ ret[i].hasBye = (byes > 0)
               /\ Len(ret[i].opponents) = Cardinality(CountedMatchesOf(p))
               /\ Range(ret[i].opponents) =
                      {OpponentIn(MatchAt(x), p) : x \in CountedMatchesOf(p)}

\* a player with a bye and a won two-player match: two match wins, one opponent
C30_Witness ==
    /\ StandingsApplied
    /\ \E i \in 1..Len(ret) :
           /\ ret[i].hasBye
           /\ ret[i].matchWins = 2
           /\ ret[i].matchPoints = 6
           /\ ret[i].gamesPlayed = 4
           /\ Len(ret[i].opponents) = 1

\* the part of a history the claim says is counted: the completed rounds, and
\* of their matches the byes and the matches with a result
CountedPart(rounds) ==
    LET complete == SelectSeq(rounds, LAMBDA r : r.status = "complete")
    IN [i \in 1..Len(complete) |->
           [complete[i] EXCEPT !.matches =
               SelectSeq(@, LAMBDA m : m.isBye \/ m.result # NoResult)]]

(* C31: computeStandings counts only the completed rounds, and of their
   matches only the byes and the matches with a result: what it returns for
   a player list and a history is what the accumulation, the two percentage
   passes and the sort give for the completed rounds alone with the matches
   lacking a result taken out, whatever the active rounds hold. *)
C31_OnlyCompletedRoundsCount ==
    StandingsApplied =>
        ret = SortStandings(
                  Percentages(Dedup(tournament.activePlayers),
                              StatsOf(Dedup(tournament.activePlayers),
                                      CountedPart(tournament.rounds))))

\* a completed round whose match was counted, beside an active round that
\* holds a result between listed players and was not
C31_Witness ==
    /\ StandingsApplied
    /\ Len(tournament.rounds) = 2
    /\ tournament.rounds[1].status = "complete"
    /\ tournament.rounds[2].status = "active"
    /\ \A k \in 1..2 :
           /\ Len(tournament.rounds[k].matches) = 1
           /\ ~tournament.rounds[k].matches[1].isBye
           /\ tournament.rounds[k].matches[1].result # NoResult
           /\ {tournament.rounds[k].matches[1].player1Id,
               tournament.rounds[k].matches[1].player2Id} \subseteq Listed
    /\ \E i \in 1..Len(ret) : ret[i].matchesPlayed = 1
    /\ \A i \in 1..Len(ret) : ret[i].matchesPlayed <= 1

\* the percentages of a player by the stated formulas over the record of the
\* completed rounds: for an opponent the standings hold no entry of
RecordMwPct(q) ==
    LET played == Cardinality(ResultMatchesOf(q)) + Cardinality(ByesOf(q))
        points == 3 * Cardinality(WonBy(q)) + Cardinality(DrawnBy(q))
                  + 3 * Cardinality(ByesOf(q))
    IN IF played = 0 THEN MIN_MATCH_WIN_PCT
       ELSE RatMax(Rat(points, 3 * played), MIN_MATCH_WIN_PCT)

RecordGwPct(q) ==
    LET won == GamesWonOver(ResultMatchesOf(q), q) + 2 * Cardinality(ByesOf(q))
        played == GamesPlayedOver(ResultMatchesOf(q)) + 2 * Cardinality(ByesOf(q))
    IN IF played = 0 THEN MIN_GAME_WIN_PCT
       ELSE RatMax(Rat(won, played), MIN_GAME_WIN_PCT)

\* the mwPct and gwPct of opponent q: those of q's Standing when there is one
OpponentMwPct(q) ==
    IF \E k \in 1..Len(ret) : ret[k].playerId = q
    THEN (CHOOSE s \in Range(ret) : s.playerId = q).mwPct
    ELSE RecordMwPct(q)

OpponentGwPct(q) ==
    IF \E k \in 1..Len(ret) : ret[k].playerId = q
    THEN (CHOOSE s \in Range(ret) : s.playerId = q).gwPct
    ELSE RecordGwPct(q)

\* the sums of the opponents' percentages over the matches S of player p
RECURSIVE MwPctSumOver(_, _)
MwPctSumOver(S, p) ==
    IF S = {} THEN <<0, 1>>
    ELSE LET x == CHOOSE y \in S : TRUE
         IN RatAdd(OpponentMwPct(OpponentIn(MatchAt(x), p)), MwPctSumOver(S \ {x}, p))

RECURSIVE GwPctSumOver(_, _)
GwPctSumOver(S, p) ==
    IF S = {} THEN <<0, 1>>
    ELSE LET x == CHOOSE y \in S : TRUE
         IN RatAdd(OpponentGwPct(OpponentIn(MatchAt(x), p)), GwPctSumOver(S \ {x}, p))

\* the mean of a sum of n rationals
MeanOf(sum, n) == Rat(sum[1], sum[2] * n)

(* C32: in the standings, every player's mwPct is matchPoints over 3 times
   matchesPlayed and gwPct is gamesWon over gamesPlayed, each no less than
   33/100 and 33/100 when nothing was played; omwPct is the mean of the
   opponents' mwPct and ogwPct the mean of their gwPct, one term for each of
   the player's matches with a result in the completed rounds, and 33/100
   when the player has no such match. *)
C32_Percentages ==
    StandingsApplied =>
        \A i \in 1..Len(ret) :
            LET s == ret[i]
                S == ResultMatchesOf(s.playerId)
            IN /\ s.mwPct = (IF s.matchesPlayed = 0 THEN MIN_MATCH_WIN_PCT
                             ELSE RatMax(Rat(s.matchPoints, 3 * s.matchesPlayed),
                                         MIN_MATCH_WIN_PCT))
               /\ s.gwPct = (IF s.gamesPlayed = 0 THEN MIN_GAME_WIN_PCT
                             ELSE RatMax(Rat(s.gamesWon, s.gamesPlayed), MIN_GAME_WIN_PCT))
               /\ s.omwPct = (IF S = {} THEN MIN_MATCH_WIN_PCT
                              ELSE MeanOf(MwPctSumOver(S, s.playerId), Cardinality(S)))
               /\ s.ogwPct = (IF S = {} THEN MIN_GAME_WIN_PCT
                              ELSE MeanOf(GwPctSumOver(S, s.playerId), Cardinality(S)))

\* the matches of the completed rounds player p took part in, byes included
CompletedMatchesOf(p) == ResultMatchesOf(p) \cup ByesOf(p)

(* C33: in the standings, a player with no completed match has mwPct, gwPct,
   omwPct and ogwPct all at 33/100, and stands after every player with the
   same matchPoints and at least one completed match. *)
C33_UnplayedSortLast ==
    StandingsApplied =>
        \A i \in 1..Len(ret) :
            CompletedMatchesOf(ret[i].playerId) = {} =>
                /\ ret[i].mwPct = MIN_MATCH_WIN_PCT
                /\ ret[i].gwPct = MIN_GAME_WIN_PCT
                /\ ret[i].omwPct = MIN_MATCH_WIN_PCT
                /\ ret[i].ogwPct = MIN_GAME_WIN_PCT
                /\ \A k \in 1..Len(ret) :
                       (/\ ret[k].matchPoints = ret[i].matchPoints
                        /\ CompletedMatchesOf(ret[k].playerId) # {}) => k < i

(* C34: in every reachable state the rounds of the tournament are numbered
   1, 2, ..., n in list order, without gap or duplicate, and currentRound is
   n, 0 when there is no round. *)
C34_RoundNumbersContiguous ==
    HasTournament =>
        /\ \A i \in 1..Len(tournament.rounds) : tournament.rounds[i].roundNumber = i
        /\ tournament.currentRound = Len(tournament.rounds)

\* matchId identifies a match of a round of the tournament whose status is active
InActiveRound(matchId) ==
    /\ HasTournament
    /\ \E i \in 1..Len(tournament.rounds) :
           /\ tournament.rounds[i].status = "active"
           /\ \E m \in Range(tournament.rounds[i].matches) : m.id = matchId

(* C35: a call of canCorrectResult(matchId) returns true when matchId
   identifies a match of a round whose status is active and false otherwise
   (a match of a completed round, an unknown ID, no tournament), and it
   leaves the tournament and the history as they were. *)
C35_CanCorrectResult ==
    [][\A id \in MatchIds :
           queryCanCorrectResult(id) =>
               /\ ret' = (IF InActiveRound(id) THEN "true" ELSE "false")
               /\ tournament' = tournament
               /\ pastTournaments' = pastTournaments]_vars

ReshuffleSeatingCalled == lastOp' = "reshuffleSeating" /\ steps' = steps + 1

\* s holds the elements of t, each as often as t does
IsPermutationOf(s, t) ==
    /\ Len(s) = Len(t)
    /\ \A x \in Range(s) \cup Range(t) :
           Cardinality({i \in 1..Len(s) : s[i] = x}) = Cardinality({i \in 1..Len(t) : t[i] = x})

(* C36: a call of reshuffleSeating made while currentRound is 0 replaces
   seatingOrder by a permutation of activePlayers and changes nothing else;
   made when a round has been paired or there is no tournament it changes
   nothing.  Every outcome of shuffle is a permutation of its input. *)
C36_ReshuffleSeating ==
    [][ReshuffleSeatingCalled =>
          /\ pastTournaments' = pastTournaments
          /\ IF HasTournament /\ tournament.currentRound = 0
             THEN /\ tournament' = [tournament EXCEPT !.seatingOrder = tournament'.seatingOrder]
                  /\ IsPermutationOf(tournament'.seatingOrder, tournament.activePlayers)
                  /\ \A order \in shuffle(tournament.activePlayers) :
                         IsPermutationOf(order, tournament.activePlayers)
             ELSE tournament' = tournament
          /\ (HasTournament /\ tournament.rounds # <<>>) => tournament' = tournament]_vars

\* a reshuffle before round 1 that left a seating other than the player list,
\* after a late arrival and a drop changed that list
C36_Witness ==
    /\ lastOp = "reshuffleSeating"
    /\ HasTournament
    /\ tournament.currentRound = 0
    /\ tournament.droppedPlayers # <<>>
    /\ tournament.seatingOrder # tournament.activePlayers
    /\ IsPermutationOf(tournament.seatingOrder, tournament.activePlayers)

\* pairRound was applied to an even-sized list, with or without a history
PairRoundAppliedToAny ==
    /\ lastOp = "pairRound"
    /\ Len(tournament.activePlayers) % 2 = 0

\* the seats of the returned pairing that hold player p
SeatsOf(p) ==
    {<<k, 1>> : k \in {j \in 1..Len(ret) : ret[j].player1Id = p}}
    \cup {<<k, 2>> : k \in {j \in 1..Len(ret) : ret[j].player2Id = p}}

(* C37: for every even-sized list of n distinct players and every list of
   completed rounds, empty or not, with or without a rematch-free pairing,
   pairRound returns n/2 pairs, every player of the list sits in exactly one
   seat of them, no seat holds anyone else, and no pair holds one player on
   both sides. *)
C37_PairRoundPartitions ==
    PairRoundAppliedToAny =>
        /\ Len(ret) = Len(tournament.activePlayers) \div 2
        /\ \A p \in Range(tournament.activePlayers) : Cardinality(SeatsOf(p)) = 1
        /\ \A k \in 1..Len(ret) :
               /\ {ret[k].player1Id, ret[k].player2Id} \subseteq Range(tournament.activePlayers)
               /\ ret[k].player1Id # ret[k].player2Id

\* the sequential fallback at work: four players, no rematch-free pairing, two
\* pairs returned and the first of them a rematch
C37_Witness ==
    /\ PairRoundAppliedToAny
    /\ Len(tournament.activePlayers) = 4
    /\ Len(tournament.rounds) > 0
    /\ ~ExistsCleanPairing(Range(tournament.activePlayers), PriorPairs)
    /\ Len(ret) = 2
    /\ {ret[1].player1Id, ret[1].player2Id} \in PriorPairs
    /\ \A p \in Range(tournament.activePlayers) : Cardinality(SeatsOf(p)) = 1

\* how often player p is seated in the round
TimesSeated(round, p) ==
    Cardinality({i \in 1..Len(round.matches) : round.matches[i].player1Id = p})
    + Cardinality({i \in 1..Len(round.matches) : round.matches[i].player2Id = p})

\* round q holds the roster and the entered data of round r
KeepsRosterAndResults(r, q) ==
    /\ Len(q.matches) = Len(r.matches)
    /\ \A p \in Players : TimesSeated(q, p) = TimesSeated(r, p)
    /\ \A i \in 1..Len(r.matches) :
           /\ q.matches[i].id = r.matches[i].id
           /\ q.matches[i].isBye = r.matches[i].isBye
           /\ q.matches[i].result = r.matches[i].result
           /\ (~r.matches[i].isBye /\ r.matches[i].result # NoResult) =>
                  /\ q.matches[i].player1Id = r.matches[i].player1Id
                  /\ q.matches[i].player2Id = r.matches[i].player2Id

(* C38: a call of swapPlayers or reassignBye leaves every round with the
   players it had, each as often as before, with as many matches, with every
   match's id, isBye flag and result as they were, and with the two players
   of every non-bye match that has a result in place. *)
C38_SwapAndReassignKeepRoster ==
    [][((SwapPlayersCalled \/ ReassignByeCalled) /\ HasTournament) =>
          /\ hasRounds(tournament')
          /\ Len(tournament'.rounds) = Len(tournament.rounds)
          /\ \A n \in 1..Len(tournament.rounds) :
                 KeepsRosterAndResults(tournament.rounds[n], tournament'.rounds[n])]_vars

\* a swap that took place in round 1 of four players: the first seats of the
\* two matches hold the second and the first player of the seating
C38_Witness ==
    /\ lastOp = "swapPlayers"
    /\ HasTournament
    /\ Len(tournament.rounds) = 1
    /\ tournament.rounds[1].status = "active"
    /\ Len(tournament.seatingOrder) = 4
    /\ Len(tournament.rounds[1].matches) = 2
    /\ tournament.rounds[1].matches[1].player1Id = tournament.seatingOrder[2]
    /\ tournament.rounds[1].matches[2].player1Id = tournament.seatingOrder[1]
    /\ \A p \in Range(tournament.seatingOrder) : TimesSeated(tournament.rounds[1], p) = 1

\* the tournaments the store holds: the one of the slot, then the history
Held(t, past) == (IF t = NoTournament THEN <<>> ELSE <<t>>) \o past

\* what tells a held tournament from the others: its ID, 0 for an object
\* that has none
IdentityOf(x) == IF hasRounds(x) THEN x.id ELSE 0

\* no ID is held twice, and the history holds finished tournaments only
HistoryWellFormed(t, past) ==
    /\ \A i, j \in 1..Len(Held(t, past)) :
           (i # j /\ hasRounds(Held(t, past)[i]) /\ hasRounds(Held(t, past)[j]))
               => Held(t, past)[i].id # Held(t, past)[j].id
    /\ \A i \in 1..Len(past) : past[i].status = "complete"

\* every finished tournament held before the step is held after it
KeepsFinished ==
    \A i \in 1..Len(Held(tournament, pastTournaments)) :
        Held(tournament, pastTournaments)[i].status = "complete" =>
            \E j \in 1..Len(Held(tournament', pastTournaments')) :
                IdentityOf(Held(tournament', pastTournaments')[j])
                    = IdentityOf(Held(tournament, pastTournaments)[i])

(* C39: over every sequence of transitions (createTournament,
   finishTournament, reopenTournament and reopenCurrentTournament among
   them) no tournament ID is held twice by the slot and the history
   together, every entry of the history has status complete, and no step
   drops a tournament whose status is complete. *)
C39_HistoryKeepsFinishedTournaments ==
    [][HistoryWellFormed(tournament', pastTournaments') /\ KeepsFinished]_vars

\* a reopened history entry changed places with the finished tournament of
\* the slot: two tournaments held, two IDs, the history entry finished
C39_Witness ==
    /\ lastOp = "reopenTournament"
    /\ HasTournament
    /\ tournament.status = "active"
    /\ Len(pastTournaments) = 1
    /\ hasRounds(pastTournaments[1])
    /\ pastTournaments[1].status = "complete"
    /\ tournament.id = 1
    /\ pastTournaments[1].id = 2

\* this step is the interval firing
TickFires == lastOp' = "tick"

(* C40: between one start() and the next start() or stop() the 40-minute
   sound and the 20-minute sound are each played at most once, and only by a
   tick that reads a remaining time at or below the sound's threshold; a
   tick that reads a remaining time of 0 or less leaves isRunning false,
   isExpired true and showAlarm true with the interval cleared, and no tick
   fires after it until start() is called again. *)
C40_TimerMilestonesAndExpiry ==
    [][/\ timer'.played40 <= 1
       /\ timer'.played20 <= 1
       /\ TickFires =>
              /\ ~timer.observedExpiry
              /\ ("40" \in Range(timer'.sounds)) => timer.endTime - now' <= MILESTONE_40
              /\ ("20" \in Range(timer'.sounds)) => timer.endTime - now' <= MILESTONE_20
              /\ (timer.endTime - now' <= 0) =>
                     /\ ~timer'.isRunning
                     /\ timer'.isExpired
                     /\ timer'.showAlarm
                     /\ ~timer'.interval]_vars

\* a countdown of the default duration ran out after both milestone sounds
\* were played, each once, and the alarm is showing
C40_Witness ==
    /\ lastOp = "tick"
    /\ timer.durationRef = DEFAULT_DURATION
    /\ timer.observedExpiry
    /\ timer.isExpired
    /\ ~timer.isRunning
    /\ timer.showAlarm
    /\ ~timer.interval
    /\ timer.played40 = 1
    /\ timer.played20 = 1

=============================================================================
